---- MODULE Spec2Model ----
(***************************************************************************)
(* Model of the CleanSlide editor: the App session state (App.tsx, kept in *)
(* src/unnamed/part_000), the PdfPreview interaction state machine and     *)
(* snapshot backfill (src/components/PdfPreview.tsx), the CropControls     *)
(* panel handlers (src/components/CropControls.tsx), the export and its    *)
(* colour parser (src/services/pdfService.ts) and the answers of the       *)
(* detectors (src/services/geminiService.ts).                              *)
(*                                                                         *)
(* Numbers.  Percentages are held in hundredths of a percent (0.5% = 50),  *)
(* pointer coordinates in CSS pixels.  The container sizes and the pointer *)
(* positions are chosen so that px / size * 100 is exact in this unit.     *)
(* Optional values (null / undefined in the source) are sequences of       *)
(* length at most one: << >> is null / undefined, <<v>> is the value v.    *)
(***************************************************************************)
EXTENDS Integers, Sequences, FiniteSets, TLC

VARIABLES
    \* ---- App.tsx (src/unnamed/part_000) ----
    appState,          \* "IDLE" | "LOADING" | "READY" | "PROCESSING"
    fileData,          \* TRUE when a document is loaded (fileData !== null)
    editMode,          \* "CROP" | "MASK"
    isFullscreen,
    currentPage,       \* 1-based
    numPages,
    margins,           \* [top, bottom, left, right]
    masks,             \* the mask store: a sequence of Mask records
    selectedMaskId,    \* << >> or <<id>>
    isAutoDetecting,
    detections,        \* auto-detect pipelines in flight
    processing,        \* << >> or <<the export in flight>>
    download,          \* << >> or <<the document handed to the browser>>
    \* ---- PdfPreview.tsx ----
    loading,
    rendering,         \* page renders in flight on the mounted canvas
    canvasPage,        \* page whose raster is on the canvas, 0 = blank
    effectsPending,    \* PdfPreview is committed, its mount effects have not run
    interactionState,  \* "IDLE" | "DRAWING" | "DRAGGING" | "RESIZING"
    activeHandle,      \* << >> or the handle's letters, e.g. <<"n","w">>
    startPos,          \* << >> or <<x, y>>
    currentPos,        \* << >> or <<x, y>>
    initialMaskState,  \* << >> or <<mask>>
    listeners,         \* the mousemove / mouseup listeners on window
    \* ---- environment ----
    now,               \* Date.now()
    \* ---- exploration ----
    storeLimit         \* masks the store may hold in the explored behaviours

appVars     == <<appState, fileData, editMode, isFullscreen, currentPage, numPages>>
marginVars  == <<margins>>
maskVars    == <<masks, selectedMaskId>>
detectVars  == <<isAutoDetecting, detections>>
exportVars  == <<processing, download>>
renderVars  == <<loading, rendering, canvasPage, effectsPending>>
gestureVars == <<interactionState, activeHandle, startPos, currentPos, initialMaskState,
                 listeners>>
vars == <<appVars, marginVars, maskVars, detectVars, exportVars, renderVars, gestureVars,
          now, storeLimit>>

(***************************************************************************)
(* Bounds of the model.                                                    *)
(***************************************************************************)
MaxMasks == 2          \* masks in the store
MaxPages == 2          \* pages of a loaded document
MaxClock == 1          \* values of Date.now() beyond the first
MaxDetections == 1     \* auto-detect pipelines in flight
MaxCoord == 1000       \* |x|, |y|, width, height of a mask, in 0.01 %
MaxDrawn == 1          \* masks in the store, in the specifications of one mask's edits

(***************************************************************************)
(* Program constants.                                                      *)
(***************************************************************************)
MinSize == 50          \* 0.5 %   (Math.max(0.5, ..), proposedW > 0.5)
DrawThreshold == 5     \* rawW > 5 && rawH > 5
MaxPairSum == 9000     \* 90 %    (value + margins.bottom > 90)
SliderMax == 4500      \* 45 %    (<input type="range" max="45">)

\* A colour is the sequence of the characters of its string: "#FFFFFF" is
\* <<"#","F","F","F","F","F","F">>, the empty string is << >>.
White == <<"#", "F", "F", "F", "F", "F", "F">>

None == << >>
Some(v) == <<v>>
IsSome(o) == o # << >>
Val(o) == o[1]

Min(a, b) == IF a < b THEN a ELSE b
Max(a, b) == IF a > b THEN a ELSE b
Abs(a) == IF a < 0 THEN -a ELSE a

FillTypes == {"solid", "clone-top", "clone-bottom", "clone-left", "clone-right"}
ResizeHandles == { <<"n","w">>, <<"n">>, <<"n","e">>, <<"e">>,
                   <<"s","e">>, <<"s">>, <<"s","w">>, <<"w">> }

\* String.prototype.includes for a one-letter needle
Includes(h, c) == \E i \in DOMAIN h : h[i] = c

(***************************************************************************)
(* Data model (src/types.ts).                                              *)
(***************************************************************************)
Mask(id, x, y, w, h, color, fill, snap, page) ==
    [id |-> id, x |-> x, y |-> y, width |-> w, height |-> h, color |-> color,
     fillType |-> fill, imageSnapshot |-> snap, pageIndex |-> page]

CropMargins(t, b, l, r) == [top |-> t, bottom |-> b, left |-> l, right |-> r]

ZeroMargins == CropMargins(0, 0, 0, 0)

(***************************************************************************)
(* Coordinate model.                                                       *)
(***************************************************************************)
\* containerRef.current.getBoundingClientRect(): <<width, height>> in px.
\* The preview is laid out at one size in the grid and another in fullscreen.
ContainerSize(fs) == IF fs THEN <<400, 200>> ELSE <<200, 100>>

\* (px / size) * 100, in hundredths of a percent
Pct(px, size) == (px * 10000) \div size

(***************************************************************************)
(* Mask store.                                                             *)
(***************************************************************************)
\* masks.map(m => m.id === updatedMask.id ? updatedMask : m)
RECURSIVE handleUpdateMask(_, _)
handleUpdateMask(ms, updatedMask) ==
    IF ms = << >> THEN << >>
    ELSE <<IF Head(ms).id = updatedMask.id THEN updatedMask ELSE Head(ms)>>
         \o handleUpdateMask(Tail(ms), updatedMask)

\* masks.filter(m => m.id !== id)
RECURSIVE filterOutId(_, _)
filterOutId(ms, id) ==
    IF ms = << >> THEN << >>
    ELSE (IF Head(ms).id # id THEN <<Head(ms)>> ELSE << >>)
         \o filterOutId(Tail(ms), id)

\* filterForPage with the test for global masks left out
filterForPageNoGlobal(ms, page) == SelectSeq(ms, LAMBDA m : m.pageIndex = Some(page))

\* masks.filter(m => m.pageIndex === undefined || m.pageIndex === page)
RECURSIVE filterForPage(_, _)
filterForPage(ms, page) ==
    IF ms = << >> THEN << >>
    ELSE (IF Head(ms).pageIndex = None \/ Head(ms).pageIndex = Some(page)
          THEN <<Head(ms)>> ELSE << >>)
         \o filterForPage(Tail(ms), page)

\* PdfPreview: masks rendered on the current page
visibleMasks == filterForPage(masks, currentPage - 1)

\* a backfill scan that leaves out the global masks
backfillVisibleMasksScoped == filterForPageNoGlobal(masks, currentPage - 1)

\* PdfPreview snapshot backfill: masks scanned on the current page
backfillVisibleMasks == filterForPage(masks, currentPage - 1)

\* modifyPdfWithMasks: masks drawn on page i (0-based) of the export
pageMasks(ms, i) == filterForPage(ms, i)

\* masks.find(m => m.id === selectedMaskId): << >> or <<mask>>
RECURSIVE findById(_, _)
findById(ms, idOpt) ==
    IF ms = << >> \/ idOpt = None THEN None
    ELSE IF Head(ms).id = Val(idOpt) THEN Some(Head(ms))
    ELSE findById(Tail(ms), idOpt)

selectedMask == findById(masks, selectedMaskId)

(***************************************************************************)
(* PdfPreview: pixel sampler.                                              *)
(***************************************************************************)
\* getDominantColor: the hex colour of the sampled pixel, white when the
\* canvas, its context or the pixel read is unavailable
getDominantColor(readable, pixel) == IF readable THEN pixel ELSE White

\* captureMaskSnapshot: null for solid masks and on failure, else the strip
\* read from the raster now on the canvas
captureMaskSnapshot(mask, readable, raster) ==
    IF mask.fillType = "solid" \/ ~readable THEN None ELSE Some(raster)

\* the test without its imageSnapshot part
needsSnapshotAnyClone(mask) == mask.fillType # "solid"

\* mask.fillType !== 'solid' && !mask.imageSnapshot
needsSnapshot(mask) == mask.fillType # "solid" /\ mask.imageSnapshot = None

\* visibleMasks.forEach(...) of the backfill effect.  Every onUpdateMask call
\* of one pass maps over the masks of the render the effect belongs to
\* (closure), so each setMasks replaces the value queued by the previous one.
\* fails: positions in the visible list whose pixel read throws; raster: the
\* content of the canvas.
RECURSIVE backfillPass(_, _, _, _, _, _)
backfillPass(visible, k, closure, store, fails, raster) ==
    IF k > Len(visible) THEN store
    ELSE LET mask == visible[k]
             snapshot == captureMaskSnapshot(mask, k \notin fails, raster)
         IN  IF needsSnapshot(mask) /\ snapshot # None
             THEN backfillPass(visible, k + 1, closure,
                      handleUpdateMask(closure, [mask EXCEPT !.imageSnapshot = snapshot]),
                      fails, raster)
             ELSE backfillPass(visible, k + 1, closure, store, fails, raster)

\* One run of the backfill effect that passed its loading test, in a render
\* showing page over the store ms.
backfillEffect(ms, page, fails, raster) ==
    backfillPass(filterForPage(ms, page - 1), 1, ms, ms, fails, raster)

(***************************************************************************)
(* Mounting of the preview.  PdfPreview is rendered only while appState is *)
(* READY; its local state starts from the useState initial values, and     *)
(* the render effect then starts a render of the current page.             *)
(***************************************************************************)
PreviewMounted == appState \in {"READY", "PROCESSING"}
CanvasPresent == PreviewMounted /\ fileData

\* A handler made by a render of PdfPreview, identified by the state its
\* useCallback dependencies close over.
Listener(type, st, sp, cp, ims, ah) ==
    [type |-> type, interactionState |-> st, startPos |-> sp, currentPos |-> cp,
     initialMaskState |-> ims, activeHandle |-> ah]

\* handleGlobalMouseMove and handleGlobalMouseUp of the current render
globalHandlers ==
    << Listener("mousemove", interactionState, startPos, None, initialMaskState,
                activeHandle),
       Listener("mouseup", interactionState, startPos, currentPos, None, None) >>

\* cleanup keeping every listener attached
removeEventListenersNone(ls, hs) == ls

\* the effect's cleanup: window.removeEventListener of the two handlers
removeEventListeners(ls, hs) ==
    SelectSeq(ls, LAMBDA l : \A i \in DOMAIN hs : l # hs[i])

\* the listener effect after a render: cleanup of the previous run with the
\* handlers it closed over (old), then window.addEventListener of the new
\* handlers when the state is not IDLE
listenerEffect(ls, old, new, st) ==
    IF st # "IDLE" THEN removeEventListeners(ls, old) \o new
    ELSE removeEventListeners(ls, old)

\* the effect as the last step of a handler that changes the gesture state
RunListenerEffect ==
    listeners' = listenerEffect(listeners, globalHandlers, globalHandlers',
                                interactionState')

\* a listener of the type is attached to window
Attached(type) == \E i \in DOMAIN listeners : listeners[i].type = type

\* a reset of the gesture that keeps the active handle
GestureInitialKeepingHandle ==
    /\ interactionState' = "IDLE"
    /\ UNCHANGED activeHandle
    /\ startPos' = None
    /\ currentPos' = None
    /\ initialMaskState' = None
    /\ RunListenerEffect

\* useState initial values of a new PdfPreview; the unmounted one ran the
\* cleanup of its listener effect
GestureInitial ==
    /\ interactionState' = "IDLE"
    /\ activeHandle' = None
    /\ startPos' = None
    /\ currentPos' = None
    /\ initialMaskState' = None
    /\ RunListenerEffect

\* PdfPreview mounted and its effects run: the render effect starts a render
MountPreview(page) ==
    /\ GestureInitial
    /\ loading' = TRUE
    /\ rendering' = <<page>>
    /\ canvasPage' = 0
    /\ effectsPending' = FALSE

\* PdfPreview mounted and committed, its effects not yet run: loading is
\* the useState initial value
CommitPreview ==
    /\ GestureInitial
    /\ loading' = FALSE
    /\ rendering' = << >>
    /\ canvasPage' = 0
    /\ effectsPending' = TRUE

UnmountPreview ==
    /\ GestureInitial
    /\ loading' = FALSE
    /\ rendering' = << >>
    /\ canvasPage' = 0
    /\ effectsPending' = FALSE

(***************************************************************************)
(* The state after construction of App, exploring stores of up to limit    *)
(* masks.                                                                  *)
(***************************************************************************)
InitWith(limit) ==
    /\ storeLimit = limit
    /\ appState = "IDLE"
    /\ fileData = FALSE
    /\ editMode = "MASK"
    /\ isFullscreen = FALSE
    /\ currentPage = 1
    /\ numPages = 1
    /\ margins = ZeroMargins
    /\ masks = << >>
    /\ selectedMaskId = None
    /\ isAutoDetecting = FALSE
    /\ detections = << >>
    /\ processing = None
    /\ download = None
    /\ loading = FALSE
    /\ rendering = << >>
    /\ canvasPage = 0
    /\ effectsPending = FALSE
    /\ interactionState = "IDLE"
    /\ activeHandle = None
    /\ startPos = None
    /\ currentPos = None
    /\ initialMaskState = None
    /\ listeners = << >>
    /\ now = 0

Init == InitWith(MaxMasks)

InitDrawn == InitWith(MaxDrawn)

(***************************************************************************)
(* App: file load and reset.                                               *)
(***************************************************************************)
\* DropZone passes a PDF file: setAppState(LOADING), then the awaits.
handleFileSelected ==
    /\ UNCHANGED <<storeLimit, exportVars>>
    /\ appState = "IDLE"
    /\ appState' = "LOADING"
    /\ UNCHANGED <<fileData, editMode, isFullscreen, currentPage, numPages,
                   marginVars, maskVars, detectVars, renderVars, gestureVars, now>>

\* DropZone.validateAndPassFile with every file type accepted
isPdfAnyType(type) == TRUE

\* DropZone.validateAndPassFile: file.type === 'application/pdf'
isPdf(type) == type = "application/pdf"

\* DropZone (rendered while appState is IDLE) receives a file by drop or by
\* the file input: a PDF is passed to handleFileSelected, any other type is
\* answered by an alert
validateAndPassFile(type) ==
    IF isPdf(type) THEN handleFileSelected
    ELSE /\ appState = "IDLE"
         /\ UNCHANGED <<storeLimit, exportVars, appVars, marginVars, maskVars, detectVars,
                        renderVars, gestureVars, now>>

\* the try block with setMasks([]) left out
loadResolvedKeepingMasks(pageCount) ==
    /\ UNCHANGED <<storeLimit, exportVars>>
    /\ appState = "LOADING"
    /\ fileData' = TRUE
    /\ numPages' = pageCount
    /\ currentPage' = 1
    /\ margins' = ZeroMargins
    /\ masks' = masks
    /\ selectedMaskId' = None
    /\ appState' = "READY"
    /\ UNCHANGED <<editMode, isFullscreen, detectVars, now>>

\* loadPdfDocument and getPdfPageCount resolved with pageCount: the setters
\* of the try block
loadResolved(pageCount) ==
    /\ UNCHANGED <<storeLimit, exportVars>>
    /\ appState = "LOADING"
    /\ fileData' = TRUE
    /\ numPages' = pageCount
    /\ currentPage' = 1
    /\ margins' = ZeroMargins
    /\ masks' = << >>
    /\ selectedMaskId' = None
    /\ appState' = "READY"
    /\ UNCHANGED <<editMode, isFullscreen, detectVars, now>>

\* the load resolved, PdfPreview is mounted and its effects have run before
\* the next event
fileLoaded(pageCount) == loadResolved(pageCount) /\ MountPreview(1)

\* the load resolved and PdfPreview is committed; its passive effects, which
\* an update made outside an event handler leaves to a later task, have not
\* run yet
fileLoadedCommit(pageCount) == loadResolved(pageCount) /\ CommitPreview

\* the mount effects run: the render effect calls setLoading(true) and
\* starts the render of the current page (the store is empty after a load,
\* the backfill effect has nothing to scan)
mountEffects ==
    /\ UNCHANGED <<storeLimit, exportVars>>
    /\ CanvasPresent
    /\ effectsPending
    /\ effectsPending' = FALSE
    /\ loading' = TRUE
    /\ rendering' = Append(rendering, currentPage)
    /\ masks' = backfillEffect(masks, currentPage, {}, canvasPage)
    /\ UNCHANGED <<appVars, marginVars, selectedMaskId, detectVars, canvasPage,
                   gestureVars, now>>

\* loadPdfDocument or getPdfPageCount rejected
fileLoadFailed ==
    /\ UNCHANGED <<storeLimit, exportVars>>
    /\ appState = "LOADING"
    /\ appState' = "IDLE"
    /\ UNCHANGED <<fileData, editMode, isFullscreen, currentPage, numPages,
                   marginVars, maskVars, detectVars, renderVars, gestureVars, now>>

\* "Upload New File", shown in the header while a file is set and the
\* layout is not fullscreen
handleReset ==
    /\ UNCHANGED <<storeLimit, exportVars>>
    /\ fileData
    /\ ~isFullscreen
    /\ fileData' = FALSE
    /\ appState' = "IDLE"
    /\ masks' = << >>
    /\ selectedMaskId' = None
    /\ margins' = ZeroMargins
    /\ isFullscreen' = FALSE
    /\ currentPage' = 1
    /\ numPages' = 1
    /\ UnmountPreview
    /\ UNCHANGED <<editMode, detectVars, now>>

\* onToggleFullscreen / the sidebar's Exit button.  The two layouts place
\* PdfPreview at different child positions, so the preview is remounted on a
\* blank canvas.  In the effects of the mount commit the render effect calls
\* setLoading(true) and starts the render, and the backfill effect, which
\* still closes over loading = false, scans the masks of the page against
\* the blank canvas.  fails: positions whose pixel read throws.
toggleFullscreen(fails) ==
    /\ UNCHANGED <<storeLimit, exportVars>>
    /\ PreviewMounted
    /\ fileData
    /\ fails \subseteq 1..Len(backfillVisibleMasks)
    /\ isFullscreen' = ~isFullscreen
    /\ MountPreview(currentPage)
    /\ masks' = backfillEffect(masks, currentPage, fails, 0)
    /\ UNCHANGED <<appState, fileData, editMode, currentPage, numPages,
                   marginVars, selectedMaskId, detectVars, now>>

\* onModeChange = setEditMode
onModeChange(mode) ==
    /\ UNCHANGED <<storeLimit, exportVars>>
    /\ PreviewMounted
    /\ editMode' = mode
    /\ UNCHANGED <<appState, fileData, isFullscreen, currentPage, numPages,
                   marginVars, maskVars, detectVars, renderVars, gestureVars, now>>

\* Pagination buttons: onPageChange(Math.max(1, currentPage - 1)) and
\* onPageChange(Math.min(numPages, currentPage + 1)), disabled while loading
\* or at the ends.  In the effects of the commit that shows the new page
\* the render effect calls setLoading(true) and starts the render, and the
\* backfill effect, which still closes over loading = false, scans the masks
\* of the new page against the canvas as it is.  A click that arrives before
\* the mount effects have run first flushes them (a render of the old page
\* starts), and the commit of the new page then already has loading = true.
\* fails: positions whose pixel read throws.
onPageChange(delta, fails) ==
    /\ UNCHANGED <<storeLimit, exportVars>>
    /\ CanvasPresent
    /\ ~loading
    /\ IF delta < 0 THEN currentPage > 1 ELSE currentPage < numPages
    /\ currentPage' = (IF delta < 0 THEN Max(1, currentPage - 1)
                                    ELSE Min(numPages, currentPage + 1))
    /\ fails \subseteq 1..Len(filterForPage(masks, currentPage' - 1))
    /\ loading' = TRUE
    /\ effectsPending' = FALSE
    /\ IF effectsPending
       THEN /\ fails = {}
            /\ rendering' = rendering \o <<currentPage, currentPage'>>
            /\ masks' = backfillEffect(masks, currentPage, {}, canvasPage)
       ELSE /\ rendering' = Append(rendering, currentPage')
            /\ masks' = backfillEffect(masks, currentPage', fails, canvasPage)
    /\ UNCHANGED <<appState, fileData, editMode, isFullscreen, numPages,
                   marginVars, selectedMaskId, detectVars, canvasPage, gestureVars, now>>

\* renderPageToCanvas resolved: setRenderTrigger, then finally setLoading(false)
renderDone(k) ==
    /\ UNCHANGED <<storeLimit, exportVars>>
    /\ k \in DOMAIN rendering
    /\ canvasPage' = rendering[k]
    /\ rendering' = SubSeq(rendering, 1, k - 1) \o SubSeq(rendering, k + 1, Len(rendering))
    /\ loading' = FALSE
    /\ UNCHANGED effectsPending
    /\ UNCHANGED <<appVars, marginVars, maskVars, detectVars, gestureVars, now>>

\* renderPageToCanvas rejected: the catch logs, finally setLoading(false);
\* the canvas keeps what it showed or was already resized (blank)
renderFailed(k, blank) ==
    /\ UNCHANGED <<storeLimit, exportVars>>
    /\ k \in DOMAIN rendering
    /\ canvasPage' = (IF blank THEN 0 ELSE canvasPage)
    /\ rendering' = SubSeq(rendering, 1, k - 1) \o SubSeq(rendering, k + 1, Len(rendering))
    /\ loading' = FALSE
    /\ UNCHANGED effectsPending
    /\ UNCHANGED <<appVars, marginVars, maskVars, detectVars, gestureVars, now>>

\* Date.now() advances
Tick ==
    /\ UNCHANGED <<storeLimit, exportVars>>
    /\ now < MaxClock
    /\ now' = now + 1
    /\ UNCHANGED <<appVars, marginVars, maskVars, detectVars, renderVars, gestureVars>>

(***************************************************************************)
(* CropControls: margin sliders (shown in CROP mode).                      *)
(***************************************************************************)
\* safeValue without the clamp against the opposing margin
safeValueUnclamped(m, key, value) == value

\* safeValue of handleChange
safeValue(m, key, value) ==
    IF key = "top" /\ value + m.bottom > MaxPairSum THEN MaxPairSum - m.bottom
    ELSE IF key = "bottom" /\ value + m.top > MaxPairSum THEN MaxPairSum - m.top
    ELSE IF key = "left" /\ value + m.right > MaxPairSum THEN MaxPairSum - m.right
    ELSE IF key = "right" /\ value + m.left > MaxPairSum THEN MaxPairSum - m.left
    ELSE value

\* handleChange(key, value): onChangeMargins({ ...margins, [key]: safeValue })
handleChange(key, value) ==
    /\ UNCHANGED <<storeLimit, exportVars>>
    /\ PreviewMounted
    /\ editMode = "CROP"
    /\ margins' = [margins EXCEPT ![key] = safeValue(margins, key, value)]
    /\ UNCHANGED <<appVars, maskVars, detectVars, renderVars, gestureVars, now>>

(***************************************************************************)
(* CropControls: the selected-mask editor (shown in MASK mode).            *)
(***************************************************************************)
\* maskChangeResult without the reset of imageSnapshot on a fillType change
maskChangeResultKeepSnapshot(sel, key, value) == [sel EXCEPT ![key] = value]

\* handleMaskChange clearing the snapshot only when a clone fill is picked
maskChangeResultClearForClone(sel, key, value) ==
    IF key = "fillType" /\ value # "solid"
    THEN [sel EXCEPT !.fillType = value, !.imageSnapshot = None]
    ELSE [sel EXCEPT ![key] = value]

\* updates of handleMaskChange applied over selectedMask
maskChangeResult(sel, key, value) ==
    IF key = "fillType"
    THEN [sel EXCEPT !.fillType = value, !.imageSnapshot = None]
    ELSE [sel EXCEPT ![key] = value]

\* handleMaskChange(key, value): onUpdateMask({ ...selectedMask, ...updates })
handleMaskChange(key, value) ==
    /\ UNCHANGED <<storeLimit, exportVars>>
    /\ PreviewMounted
    /\ editMode = "MASK"
    /\ IsSome(selectedMask)
    \* the colour field is rendered for solid masks only
    /\ key = "color" => Val(selectedMask).fillType = "solid"
    \* the select and the colour field report a change of their value
    /\ key \in {"fillType", "color"} => value # Val(selectedMask)[key]
    /\ masks' = handleUpdateMask(masks, maskChangeResult(Val(selectedMask), key, value))
    /\ UNCHANGED <<appVars, marginVars, selectedMaskId, detectVars, renderVars,
                   gestureVars, now>>

\* newPageIndex with the 1-based page number stored as the 0-based index
newPageIndexOneBased(sel, page) ==
    IF sel.pageIndex # None THEN None ELSE Some(page)

\* newPageIndex of toggleMaskScope
newPageIndex(sel, page) ==
    IF sel.pageIndex # None THEN None ELSE Some(page - 1)

\* toggleMaskScope: onUpdateMask({ ...selectedMask, pageIndex: newPageIndex })
toggleMaskScope ==
    /\ UNCHANGED <<storeLimit, exportVars>>
    /\ PreviewMounted
    /\ editMode = "MASK"
    /\ IsSome(selectedMask)
    /\ masks' = handleUpdateMask(masks,
                  [Val(selectedMask) EXCEPT
                      !.pageIndex = newPageIndex(Val(selectedMask), currentPage)])
    /\ UNCHANGED <<appVars, marginVars, selectedMaskId, detectVars, renderVars,
                   gestureVars, now>>

\* The trash button of the selected-mask editor: handleDeleteMask(selectedMask.id)
\* a deletion that leaves the selection as it is
handleDeleteMaskKeepingSelection ==
    /\ UNCHANGED <<storeLimit, exportVars>>
    /\ PreviewMounted
    /\ editMode = "MASK"
    /\ IsSome(selectedMask)
    /\ masks' = filterOutId(masks, Val(selectedMask).id)
    /\ UNCHANGED selectedMaskId
    /\ UNCHANGED <<appVars, marginVars, detectVars, renderVars, gestureVars, now>>

handleDeleteMask ==
    /\ UNCHANGED <<storeLimit, exportVars>>
    /\ PreviewMounted
    /\ editMode = "MASK"
    /\ IsSome(selectedMask)
    /\ masks' = filterOutId(masks, Val(selectedMask).id)
    /\ selectedMaskId' = (IF selectedMaskId = Some(Val(selectedMask).id)
                          THEN None ELSE selectedMaskId)
    /\ UNCHANGED <<appVars, marginVars, detectVars, renderVars, gestureVars, now>>

\* A click on entry k of the patch list: onSelectMask(mask.id)
onSelectMask(k) ==
    /\ UNCHANGED <<storeLimit, exportVars>>
    /\ PreviewMounted
    /\ editMode = "MASK"
    /\ k \in DOMAIN masks
    /\ selectedMaskId' = Some(masks[k].id)
    /\ UNCHANGED <<appVars, marginVars, masks, detectVars, renderVars, gestureVars, now>>

(***************************************************************************)
(* App: auto-detect.  A request captures currentPage and editMode; the     *)
(* pipeline races a 90 s timeout, and keeps running after the timeout.     *)
(***************************************************************************)
RemoveAt(q, k) == SubSeq(q, 1, k - 1) \o SubSeq(q, k + 1, Len(q))

\* isAutoDetecting after pipeline k ends: the finally of the race runs once
flagAfter(k) == IF detections[k].settled THEN isAutoDetecting ELSE FALSE

handleAutoDetect ==
    /\ UNCHANGED <<storeLimit, exportVars>>
    /\ PreviewMounted
    /\ fileData
    /\ ~isAutoDetecting
    /\ Len(detections) < MaxDetections
    /\ isAutoDetecting' = TRUE
    /\ detections' = Append(detections,
                        [page |-> currentPage, mode |-> editMode, settled |-> FALSE])
    /\ UNCHANGED <<appVars, marginVars, maskVars, renderVars, gestureVars, now>>

\* the timeout promise rejects first, with no finally block: the flag stays
detectTimeoutKeepingFlag(k) ==
    /\ UNCHANGED <<storeLimit, exportVars>>
    /\ k \in DOMAIN detections
    /\ ~detections[k].settled
    /\ isAutoDetecting' = isAutoDetecting
    /\ detections' = [detections EXCEPT ![k].settled = TRUE]
    /\ UNCHANGED <<appVars, marginVars, maskVars, renderVars, gestureVars, now>>

\* the timeout promise rejects first: catch, finally setIsAutoDetecting(false)
detectTimeout(k) ==
    /\ UNCHANGED <<storeLimit, exportVars>>
    /\ k \in DOMAIN detections
    /\ ~detections[k].settled
    /\ isAutoDetecting' = FALSE
    /\ detections' = [detections EXCEPT ![k].settled = TRUE]
    /\ UNCHANGED <<appVars, marginVars, maskVars, renderVars, gestureVars, now>>

\* getPageAsImage or the detector threw (no API key): the pipeline rejects
detectFailed(k) ==
    /\ UNCHANGED <<storeLimit, exportVars>>
    /\ k \in DOMAIN detections
    /\ isAutoDetecting' = flagAfter(k)
    /\ detections' = RemoveAt(detections, k)
    /\ UNCHANGED <<appVars, marginVars, maskVars, renderVars, gestureVars, now>>

\* detectWatermarkMargins resolved with suggested: setMargins(suggestedMargins)
detectMarginsDone(k, suggested) ==
    /\ UNCHANGED <<storeLimit, exportVars>>
    /\ k \in DOMAIN detections
    /\ detections[k].mode = "CROP"
    /\ margins' = suggested
    /\ isAutoDetecting' = flagAfter(k)
    /\ detections' = RemoveAt(detections, k)
    /\ UNCHANGED <<appVars, maskVars, renderVars, gestureVars, now>>

\* What a call of the margin detector meets: kind is "no-key" (GEMINI_API_KEY
\* empty), "api-error" (generateContent rejects), "empty" (no response text),
\* "unparsable" (JSON.parse throws), "null" (the text parses to null) or
\* "object"; body holds the fields of a parsed object, << >> when missing.
MarginOutcome(kind, t, b, l, r) == [kind |-> kind, body |-> CropMargins(t, b, l, r)]

\* field || 0
OrZero(field) == IF field = None \/ Val(field) = 0 THEN 0 ELSE Val(field)

\* detectWatermarkMargins: threw is TRUE when the promise rejects, margins is
\* the value it resolves with.  The key test precedes the try block; every
\* throw inside the try block is caught and answered with zero margins.
detectWatermarkMargins(outcome) ==
    IF outcome.kind = "no-key"
    THEN [threw |-> TRUE, margins |-> ZeroMargins]
    ELSE IF outcome.kind # "object"
    THEN [threw |-> FALSE, margins |-> ZeroMargins]
    ELSE [threw |-> FALSE,
          margins |-> CropMargins(OrZero(outcome.body.top), OrZero(outcome.body.bottom),
                                  OrZero(outcome.body.left), OrZero(outcome.body.right))]

\* the margin detector call of pipeline k ends: setMargins of the value it
\* resolved with, or the rejection of the pipeline
detectMarginsAnswered(k, outcome) ==
    IF detectWatermarkMargins(outcome).threw
    THEN k \in DOMAIN detections /\ detections[k].mode = "CROP" /\ detectFailed(k)
    ELSE detectMarginsDone(k, detectWatermarkMargins(outcome).margins)

\* detectWatermarkMasks maps the raw descriptors <<x, y, width, height, color>>
RECURSIVE detectedMasks(_, _, _)
detectedMasks(raw, t, idx) ==
    IF raw = << >> THEN << >>
    ELSE <<Mask(<<t, idx>>, Head(raw)[1], Head(raw)[2], Head(raw)[3], Head(raw)[4],
                (IF Head(raw)[5] = << >> THEN White ELSE Head(raw)[5]),
                "solid", None, None)>>
         \o detectedMasks(Tail(raw), t, idx + 1)

\* pageSpecificMasks reading the page shown when the detector answers
pageSpecificMasksAtCompletion(ms, page) ==
    [i \in 1..Len(ms) |-> [ms[i] EXCEPT !.pageIndex = Some(currentPage - 1)]]

\* detectedMasks.map(m => ({ ...m, pageIndex: currentPage - 1 }))
RECURSIVE pageSpecificMasks(_, _)
pageSpecificMasks(ms, page) ==
    IF ms = << >> THEN << >>
    ELSE <<[Head(ms) EXCEPT !.pageIndex = Some(page - 1)]>>
         \o pageSpecificMasks(Tail(ms), page)

\* detectWatermarkMasks resolved: setMasks(prev => [...prev, ...pageSpecificMasks])
detectMasksDone(k, raw) ==
    /\ UNCHANGED <<storeLimit, exportVars>>
    /\ k \in DOMAIN detections
    /\ detections[k].mode = "MASK"
    /\ Len(masks) + Len(raw) <= storeLimit
    /\ masks' = masks \o pageSpecificMasks(detectedMasks(raw, now, 0), detections[k].page)
    /\ isAutoDetecting' = flagAfter(k)
    /\ detections' = RemoveAt(detections, k)
    /\ UNCHANGED <<appVars, marginVars, selectedMaskId, renderVars, gestureVars, now>>

\* The backfill effect: if (!onUpdateMask || loading) return; ...
snapshotBackfill(fails) ==
    /\ UNCHANGED <<storeLimit, exportVars>>
    /\ CanvasPresent
    /\ ~effectsPending
    /\ ~loading
    /\ fails \subseteq 1..Len(backfillVisibleMasks)
    /\ masks' = backfillPass(backfillVisibleMasks, 1, masks, masks, fails, canvasPage)
    /\ UNCHANGED <<appVars, marginVars, selectedMaskId, detectVars, renderVars,
                   gestureVars, now>>

(***************************************************************************)
(* PdfPreview: the interaction state machine.  Pointer positions are       *)
(* relative to the container (getRelativeCoords).                          *)
(***************************************************************************)
isVisible(mask) == mask.pageIndex = None \/ mask.pageIndex = Some(currentPage - 1)

\* bound of the model: geometry stays within MaxCoord
InRange(mask) ==
    /\ Abs(mask.x) <= MaxCoord /\ Abs(mask.y) <= MaxCoord
    /\ Abs(mask.width) <= MaxCoord /\ Abs(mask.height) <= MaxCoord

\* a canvas mouse-down that does not look at the interaction state
handleContainerMouseDownAnyState(pos) ==
    /\ UNCHANGED <<storeLimit, exportVars>>
    /\ CanvasPresent
    /\ IF editMode # "MASK"
       THEN UNCHANGED <<selectedMaskId, gestureVars>>
       ELSE /\ selectedMaskId' = None
            /\ startPos' = Some(pos)
            /\ currentPos' = Some(pos)
            /\ interactionState' = "DRAWING"
            /\ UNCHANGED <<activeHandle, initialMaskState>>
            /\ RunListenerEffect
    /\ UNCHANGED <<appVars, marginVars, masks, detectVars, renderVars, now>>

handleContainerMouseDown(pos) ==
    /\ UNCHANGED <<storeLimit, exportVars>>
    /\ CanvasPresent
    /\ IF editMode # "MASK" \/ interactionState # "IDLE"
       THEN UNCHANGED <<selectedMaskId, gestureVars>>
       ELSE /\ selectedMaskId' = None
            /\ startPos' = Some(pos)
            /\ currentPos' = Some(pos)
            /\ interactionState' = "DRAWING"
            /\ UNCHANGED <<activeHandle, initialMaskState>>
            /\ RunListenerEffect
    /\ UNCHANGED <<appVars, marginVars, masks, detectVars, renderVars, now>>

\* a mask mouse-down that starts the drag without selecting the mask
handleMaskMouseDownNoSelect(k, pos) ==
    /\ UNCHANGED <<storeLimit, exportVars>>
    /\ CanvasPresent
    /\ editMode = "MASK"
    /\ k \in DOMAIN masks
    /\ isVisible(masks[k])
    /\ initialMaskState' = Some(masks[k])
    /\ startPos' = Some(pos)
    /\ interactionState' = "DRAGGING"
    /\ UNCHANGED <<appVars, marginVars, maskVars, detectVars, renderVars,
                   activeHandle, currentPos, now>>
    /\ RunListenerEffect

\* mouse-down on the div of mask k, rendered in MASK mode for visible masks
handleMaskMouseDown(k, pos) ==
    /\ UNCHANGED <<storeLimit, exportVars>>
    /\ CanvasPresent
    /\ editMode = "MASK"
    /\ k \in DOMAIN masks
    /\ isVisible(masks[k])
    /\ selectedMaskId' = Some(masks[k].id)
    /\ initialMaskState' = Some(masks[k])
    /\ startPos' = Some(pos)
    /\ interactionState' = "DRAGGING"
    /\ UNCHANGED <<appVars, marginVars, masks, detectVars, renderVars,
                   activeHandle, currentPos, now>>
    /\ RunListenerEffect

\* mouse-down on handle h of mask k; handles are rendered for the visible
\* masks whose id is the selected id
handleResizeMouseDown(h, k, pos) ==
    /\ UNCHANGED <<storeLimit, exportVars>>
    /\ CanvasPresent
    /\ editMode = "MASK"
    /\ k \in DOMAIN masks
    /\ isVisible(masks[k])
    /\ selectedMaskId = Some(masks[k].id)
    /\ initialMaskState' = Some(masks[k])
    /\ activeHandle' = h
    /\ startPos' = Some(pos)
    /\ interactionState' = "RESIZING"
    /\ UNCHANGED <<appVars, marginVars, maskVars, detectVars, renderVars,
                   currentPos, now>>
    /\ RunListenerEffect

\* a DRAGGING move that follows the pointer on the x axis only
dragResultAlongX(init, dxPct, dyPct) ==
    [init EXCEPT !.x = init.x + dxPct, !.imageSnapshot = None]

\* the mask written by a DRAGGING move
dragResult(init, dxPct, dyPct) ==
    [init EXCEPT !.x = init.x + dxPct, !.y = init.y + dyPct, !.imageSnapshot = None]

\* newW / newX of a RESIZING move (the y axis uses the same code with s / n)
resizeSize(handle, grow, shrink, size, dPct) ==
    LET grown == IF Includes(handle, grow) THEN Max(MinSize, size + dPct) ELSE size
        proposed == size - dPct
    IN  IF Includes(handle, shrink) /\ proposed > MinSize THEN proposed ELSE grown

resizeOrigin(handle, shrink, origin, size, dPct) ==
    IF Includes(handle, shrink) /\ size - dPct > MinSize THEN origin + dPct ELSE origin

\* a RESIZING move whose width follows the pointer for every handle
resizeResultWidening(init, handle, dxPct, dyPct) ==
    [init EXCEPT !.x = resizeOrigin(handle, "w", init.x, init.width, dxPct),
                 !.y = resizeOrigin(handle, "n", init.y, init.height, dyPct),
                 !.width = resizeSize(<<"e">>, "e", "w", init.width, dxPct),
                 !.height = resizeSize(handle, "s", "n", init.height, dyPct),
                 !.imageSnapshot = None]

\* the mask written by a RESIZING move
resizeResult(init, handle, dxPct, dyPct) ==
    [init EXCEPT !.x = resizeOrigin(handle, "w", init.x, init.width, dxPct),
                 !.y = resizeOrigin(handle, "n", init.y, init.height, dyPct),
                 !.width = resizeSize(handle, "e", "w", init.width, dxPct),
                 !.height = resizeSize(handle, "s", "n", init.height, dyPct),
                 !.imageSnapshot = None]

\* percent delta between pos and the recorded start, against the container
dxPctOf(pos) == Pct(pos[1] - Val(startPos)[1], ContainerSize(isFullscreen)[1])
dyPctOf(pos) == Pct(pos[2] - Val(startPos)[2], ContainerSize(isFullscreen)[2])

\* the window mousemove listener, attached while the state is not IDLE
handleGlobalMouseMove(pos) ==
    /\ UNCHANGED <<storeLimit, exportVars>>
    /\ CanvasPresent
    /\ Attached("mousemove")
    /\ interactionState # "IDLE"
    /\ currentPos' = Some(pos)
    /\ IF interactionState = "DRAGGING" /\ IsSome(initialMaskState) /\ IsSome(startPos)
       THEN LET written == dragResult(Val(initialMaskState), dxPctOf(pos), dyPctOf(pos))
            IN  InRange(written) /\ masks' = handleUpdateMask(masks, written)
       ELSE IF interactionState = "RESIZING" /\ IsSome(initialMaskState)
               /\ IsSome(activeHandle) /\ IsSome(startPos)
       THEN LET written == resizeResult(Val(initialMaskState), activeHandle,
                                        dxPctOf(pos), dyPctOf(pos))
            IN  InRange(written) /\ masks' = handleUpdateMask(masks, written)
       ELSE UNCHANGED masks
    /\ UNCHANGED <<appVars, marginVars, selectedMaskId, detectVars, renderVars,
                   interactionState, activeHandle, startPos, initialMaskState, now>>
    /\ RunListenerEffect

\* the drawn rectangle <<rawX, rawY, rawW, rawH>> in px
rawRect(s, c) == <<Min(s[1], c[1]), Min(s[2], c[2]), Abs(c[1] - s[1]), Abs(c[2] - s[2])>>

\* exceedsThreshold accepting a side of exactly 5 px
exceedsThresholdInclusive(raw) == raw[3] >= DrawThreshold /\ raw[4] >= DrawThreshold

exceedsThreshold(raw) == raw[3] > DrawThreshold /\ raw[4] > DrawThreshold

\* the mask handed to onAddMask by a pointer-up that ends DRAWING
drawnMask(raw, size, t, color, page) ==
    Mask(<<t>>, Pct(raw[1], size[1]), Pct(raw[2], size[2]),
         Pct(raw[3], size[1]), Pct(raw[4], size[2]), color, "solid", None,
         Some(page - 1))

\* handleAddMask: setMasks([...masks, maskWithPage]); setSelectedMaskId(newMask.id)
handleAddMask(ms, newMask, page) == Append(ms, [newMask EXCEPT !.pageIndex = Some(page - 1)])

\* the window mouseup listener, attached while the state is not IDLE
handleGlobalMouseUp(readable, pixel) ==
    /\ UNCHANGED <<storeLimit, exportVars>>
    /\ Attached("mouseup")
    /\ PreviewMounted
    /\ IF interactionState = "DRAWING" /\ IsSome(startPos) /\ IsSome(currentPos)
          /\ CanvasPresent /\ exceedsThreshold(rawRect(Val(startPos), Val(currentPos)))
       THEN LET newMask == drawnMask(rawRect(Val(startPos), Val(currentPos)),
                                     ContainerSize(isFullscreen), now,
                                     getDominantColor(readable, pixel), currentPage)
            IN  /\ Len(masks) < storeLimit
                /\ masks' = handleAddMask(masks, newMask, currentPage)
                /\ selectedMaskId' = Some(newMask.id)
       ELSE UNCHANGED <<masks, selectedMaskId>>
    /\ GestureInitial
    /\ UNCHANGED <<appVars, marginVars, detectVars, renderVars, now>>

(***************************************************************************)
(* Inputs of the environment shared by the specifications.                 *)
(***************************************************************************)
\* pointer positions of a draw, px relative to the container: the rectangle
\* between them is 11 x 11 px
DrawPoints == { <<0, 0>>, <<11, 11>> }
\* colour of the sampled raster pixel
PixelColors == { <<"#", "1", "A", "2", "B", "3", "C">> }
\* colours typed into the colour field
ColorInputs == { <<"#", "f", "f", "0", "0", "0", "0">> }

(***************************************************************************)
(* Spec: the mask store under drawing, scope toggles, colour edits,        *)
(* selection, deletion and page navigation.                                *)
(***************************************************************************)
SessionNext ==
    \/ handleFileSelected
    \/ \E n \in 1..MaxPages : fileLoaded(n)
    \/ fileLoadFailed
    \/ handleReset

PageNext ==
    \/ \E d \in {-1, 1} : onPageChange(d, {})
    \/ renderDone(1)

DrawNext ==
    \/ \E pos \in DrawPoints : handleContainerMouseDown(pos)
    \/ \E pos \in DrawPoints : handleGlobalMouseMove(pos)
    \/ \E pixel \in PixelColors : handleGlobalMouseUp(TRUE, pixel)

ScopeNext ==
    \/ toggleMaskScope
    \/ \E v \in ColorInputs : handleMaskChange("color", v)
    \/ handleDeleteMask
    \/ \E k \in 1..MaxMasks : onSelectMask(k)

Next == SessionNext \/ PageNext \/ DrawNext \/ ScopeNext \/ Tick

Spec == Init /\ [][Next]_vars

(***************************************************************************)
(* C2.  Page listing.                                                      *)
(***************************************************************************)
\* positions of the store whose mask applies to page p (0-based)
AppliesTo(ms, p) == { i \in DOMAIN ms : ms[i].pageIndex = None \/ ms[i].pageIndex = Some(p) }

\* the k-th smallest position of a set of positions
KthOf(S, k) == CHOOSE i \in S : Cardinality({ j \in S : j <= i }) = k

\* listing holds exactly the masks of the store that apply to page p, in
\* store order
IsListingFor(listing, ms, p) ==
    /\ Len(listing) = Cardinality(AppliesTo(ms, p))
    /\ \A k \in 1..Len(listing) : listing[k] = ms[KthOf(AppliesTo(ms, p), k)]

\* C2: for every store content and every page p, the masks listed for p in
\* the preview, in the snapshot backfill and in the export of page p are
\* exactly the masks whose pageIndex is undefined or equals p, in store
\* order; every other mask is excluded.
C2_ListForPage ==
    /\ IsListingFor(visibleMasks, masks, currentPage - 1)
    /\ IsListingFor(backfillVisibleMasks, masks, currentPage - 1)
    /\ \A p \in 0..MaxPages : IsListingFor(pageMasks(masks, p), masks, p)

\* a page-specific mask of page 2 followed by a global one, seen from page 1:
\* the listing of page 1 holds the second mask only
C2_Witness ==
    /\ Len(masks) = 2
    /\ masks[1].pageIndex = Some(1)
    /\ masks[2].pageIndex = None
    /\ currentPage = 1
    /\ visibleMasks = <<masks[2]>>
    /\ pageMasks(masks, 1) = masks

(***************************************************************************)
(* C8.  Scope toggle.                                                      *)
(***************************************************************************)
ListedOn(ms, m, p) == \E k \in DOMAIN pageMasks(ms, p) : pageMasks(ms, p)[k] = m

SameButScope(a, b) ==
    /\ a.id = b.id /\ a.x = b.x /\ a.y = b.y /\ a.width = b.width
    /\ a.height = b.height /\ a.color = b.color /\ a.fillType = b.fillType

\* C8: toggling the scope of the selected mask when its pageIndex is defined
\* sets it to undefined, after which the mask is listed for every page;
\* toggling when it is undefined sets it to currentPage - 1, after which it is
\* listed only for the current page; id, geometry, color and fillType are
\* unchanged.
C8_ToggleScope ==
    [][toggleMaskScope =>
        LET before == Val(selectedMask)
            after == Val(findById(masks', selectedMaskId))
        IN  /\ SameButScope(before, after)
            /\ before.pageIndex # None =>
                 /\ after.pageIndex = None
                 /\ \A p \in 0..MaxPages : ListedOn(masks', after, p)
            /\ before.pageIndex = None =>
                 /\ after.pageIndex = Some(currentPage - 1)
                 /\ \A p \in 0..MaxPages : ListedOn(masks', after, p) <=> p = currentPage - 1
    ]_vars

\* a drawn mask (drawn masks start page-specific) that is global and listed
\* on page 2
C8_Witness ==
    /\ currentPage = 2
    /\ \E k \in DOMAIN masks :
          /\ Len(masks[k].id) = 1
          /\ masks[k].pageIndex = None
          /\ selectedMaskId = Some(masks[k].id)
          /\ ListedOn(masks, masks[k], 1)

(***************************************************************************)
(* SpecMargins: the crop margins under the sliders, margin auto-detection, *)
(* mode changes, file load and reset.                                      *)
(***************************************************************************)
MarginKeys == {"top", "bottom", "left", "right"}
\* slider positions (0..45 in steps of 0.5), in 0.01 %
SliderValues == { 0, 1000, SliderMax }
\* values suggested by the margin detector, in 0.01 %
SuggestedValues == { 0, 1000, 5000 }

SliderNext ==
    \/ \E m \in {"CROP", "MASK"} : onModeChange(m)
    \/ \E key \in MarginKeys, v \in SliderValues : handleChange(key, v)

MarginDetectNext ==
    \/ handleAutoDetect
    \/ \E k \in 1..MaxDetections : detectTimeout(k)
    \/ \E k \in 1..MaxDetections : detectFailed(k)
    \/ \E k \in 1..MaxDetections, t, b, l, r \in SuggestedValues :
          detectMarginsDone(k, CropMargins(t, b, l, r))

NextMargins == SessionNext \/ SliderNext \/ MarginDetectNext

SpecMargins == Init /\ [][NextMargins]_vars

Opposing(key) ==
    CASE key = "top" -> "bottom" [] key = "bottom" -> "top"
      [] key = "left" -> "right" [] key = "right" -> "left"

\* C6: handleChange(key, v) stores v for that key when v plus the current
\* opposing margin is <= 90, and 90 minus the opposing margin otherwise; the
\* other three margins are unchanged.
C6_HandleChange ==
    [][\A key \in MarginKeys, v \in SliderValues :
          handleChange(key, v) =>
            /\ margins'[key] = (IF v + margins[Opposing(key)] <= 9000
                                THEN v ELSE 9000 - margins[Opposing(key)])
            /\ \A other \in MarginKeys \ {key} : margins'[other] = margins[other]
    ]_vars

\* the slider at 45 against a suggested bottom margin of 50 was stored as 40
C6_Witness ==
    /\ margins.bottom = 5000
    /\ margins.top = 4000

\* cropAndDownloadPdf: <<width, height>> of the crop box of a page of
\* pageWidth x pageHeight points, in 0.0001 pt
cropBox(m, pageWidth, pageHeight) ==
    LET cropLeft == m.left * pageWidth
        cropRight == pageWidth * 10000 - m.right * pageWidth
        cropBottom == m.bottom * pageHeight
        cropTop == pageHeight * 10000 - m.top * pageHeight
    IN  <<cropRight - cropLeft, cropTop - cropBottom>>

\* C7: in every reachable state of the session top + bottom <= 90 and
\* left + right <= 90 and each margin is >= 0, so the crop box computed at
\* export has positive width and positive height.
C7_MarginPairs ==
    /\ margins.top + margins.bottom <= 9000
    /\ margins.left + margins.right <= 9000
    /\ \A key \in MarginKeys : margins[key] >= 0
    /\ cropBox(margins, 960, 540)[1] > 0
    /\ cropBox(margins, 960, 540)[2] > 0

\* C12: if the auto-detect timeout expires before the detection pipeline
\* completes, that detection call never modifies the mask store or the
\* margins afterwards, including when the detector response arrives after
\* the timeout.
C12_TimeoutLeavesStore ==
    [][\A k \in 1..MaxDetections, t, b, l, r \in SuggestedValues :
          (/\ k \in DOMAIN detections
           /\ detections[k].settled
           /\ detectMarginsDone(k, CropMargins(t, b, l, r)))
             => (margins' = margins /\ masks' = masks)
    ]_vars

(***************************************************************************)
(* SpecDraw: the DRAWING gesture on a document of MaxPages pages, in the   *)
(* grid and in the fullscreen layout.                                      *)
(***************************************************************************)
\* where a draw starts, and where the pointer moves: the rectangles between
\* them are 11x11, 6x6 (commit), 5x5, 11x3, 3x11, 6x2, 2x6 and 0x0 px
DrawStarts == { <<0, 0>>, <<5, 5>> }
DrawMoves == { <<5, 5>>, <<11, 3>>, <<3, 11>>, <<11, 11>> }

DrawSessionNext ==
    \/ handleFileSelected
    \/ fileLoaded(MaxPages)
    \/ handleReset
    \/ toggleFullscreen({})
    \/ onPageChange(1, {})
    \/ renderDone(1)

DrawGestureNext ==
    \/ \E pos \in DrawStarts : handleContainerMouseDown(pos)
    \/ \E pos \in DrawMoves : handleGlobalMouseMove(pos)
    \/ \E pixel \in PixelColors : handleGlobalMouseUp(TRUE, pixel)

NextDraw == DrawSessionNext \/ DrawGestureNext \/ Tick

SpecDraw == InitDrawn /\ [][NextDraw]_vars

\* C3: a pointer-up that ends DRAWING appends exactly one mask to the store,
\* with pageIndex = currentPage - 1, fillType 'solid' and geometry equal to
\* the drawn rectangle in percent of the container, if and only if the drawn
\* rectangle is more than 5 px wide and more than 5 px high; otherwise the
\* store is left unchanged.
C3_DrawCommit ==
    [][\A pixel \in PixelColors :
          (interactionState = "DRAWING" /\ handleGlobalMouseUp(TRUE, pixel)) =>
            LET sx == Val(startPos)[1]   sy == Val(startPos)[2]
                cx == Val(currentPos)[1] cy == Val(currentPos)[2]
                w == ContainerSize(isFullscreen)[1]
                h == ContainerSize(isFullscreen)[2]
                added == masks'[Len(masks')]
            IN  IF Abs(cx - sx) > 5 /\ Abs(cy - sy) > 5
                THEN /\ Len(masks') = Len(masks) + 1
                     /\ SubSeq(masks', 1, Len(masks)) = masks
                     /\ added.pageIndex = Some(currentPage - 1)
                     /\ added.fillType = "solid"
                     /\ added.x * w = Min(sx, cx) * 10000
                     /\ added.y * h = Min(sy, cy) * 10000
                     /\ added.width * w = Abs(cx - sx) * 10000
                     /\ added.height * h = Abs(cy - sy) * 10000
                ELSE masks' = masks
    ]_vars

\* the 6 x 6 px rectangle from (5,5) to (11,11), drawn on page 2 in the grid
\* layout (200 x 100 px), is in the store as 3 % x 6 % at (2.5 %, 5 %)
C3_Witness ==
    /\ interactionState = "IDLE"
    /\ currentPage = 2
    /\ Len(masks) = 1
    /\ masks[1].pageIndex = Some(1)
    /\ masks[1].x = 250 /\ masks[1].y = 500
    /\ masks[1].width = 300 /\ masks[1].height = 600
    /\ selectedMaskId = Some(masks[1].id)

(***************************************************************************)
(* SpecFill: fill styles and texture snapshots of drawn masks: fill-style  *)
(* and colour edits, scope toggles, the snapshot backfill, page            *)
(* navigation and renders, on a document of two pages.                     *)
(***************************************************************************)
\* fill styles picked in the select
FillInputs == { "solid", "clone-top", "clone-right" }

FillSessionNext ==
    \/ handleFileSelected
    \/ fileLoaded(2)
    \/ handleReset
    \/ \E d \in {-1, 1}, fails \in SUBSET (1..MaxMasks) : onPageChange(d, fails)
    \/ renderDone(1)

FillDrawNext ==
    \/ handleContainerMouseDown(<<0, 0>>)
    \/ handleGlobalMouseMove(<<11, 11>>)
    \/ \E pixel \in PixelColors : handleGlobalMouseUp(TRUE, pixel)

FillPanelNext ==
    \/ \E v \in FillInputs : handleMaskChange("fillType", v)
    \/ \E v \in ColorInputs : handleMaskChange("color", v)
    \/ toggleMaskScope
    \/ \E k \in 1..MaxDrawn : onSelectMask(k)
    \/ \E fails \in SUBSET (1..MaxDrawn) : snapshotBackfill(fails)

NextFill == FillSessionNext \/ FillDrawNext \/ FillPanelNext \/ Tick

SpecFill == InitDrawn /\ [][NextFill]_vars

\* the stored mask that the panel edits, after the step
EditedAfter == Val(findById(masks', selectedMaskId))

\* C9: after a scope toggle changes a mask's pageIndex, the stored mask's
\* imageSnapshot is undefined.
C9_ToggleClearsSnapshot ==
    [][toggleMaskScope => EditedAfter.imageSnapshot = None]_vars

\* C10: after the fill style of the selected mask is changed to any value,
\* the stored mask's imageSnapshot is undefined, while a color-only edit
\* leaves imageSnapshot as it was.
C10_FillClearsSnapshot ==
    [][/\ \A v \in FillInputs :
            handleMaskChange("fillType", v) => EditedAfter.imageSnapshot = None
       /\ \A v \in ColorInputs :
            handleMaskChange("color", v) =>
               EditedAfter.imageSnapshot = Val(selectedMask).imageSnapshot
    ]_vars

\* the selected mask, showing page 2 with no render in flight, has a clone
\* fill and no snapshot: its fill style was just changed
C10_Witness ==
    /\ ~loading
    /\ canvasPage = 2
    /\ currentPage = 2
    /\ IsSome(selectedMask)
    /\ Val(selectedMask).fillType = "clone-right"
    /\ Val(selectedMask).imageSnapshot = None
    /\ Val(selectedMask).pageIndex = Some(1)

\* C11: when the current page changes, snapshots are invalidated: in every
\* reachable state in which no render is in flight, each non-solid mask
\* visible on the current page that has an imageSnapshot had that snapshot
\* captured from the raster of the current page.
C11_SnapshotOfCurrentPage ==
    (CanvasPresent /\ ~loading /\ rendering = << >>) =>
        \A k \in DOMAIN visibleMasks :
            (visibleMasks[k].fillType # "solid" /\ visibleMasks[k].imageSnapshot # None)
                => visibleMasks[k].imageSnapshot = Some(currentPage)

\* the masks of the store with the id of the k-th visible mask are left as
\* they are by the step
LeftAlone(k) ==
    \A i \in DOMAIN masks :
        masks[i].id = backfillVisibleMasks[k].id => (i \in DOMAIN masks' /\ masks'[i] = masks[i])

\* C18: a backfill pass in which every mask visible on the current page is
\* solid or already holds an imageSnapshot, or in which every capture that is
\* attempted fails, leaves the mask store as it is, and a pass writes nothing
\* for a mask whose capture fails.
C18_BackfillIdempotent ==
    [][\A fails \in SUBSET (1..MaxDrawn) :
         snapshotBackfill(fails)
         => /\ (\A k \in DOMAIN backfillVisibleMasks :
                    \/ backfillVisibleMasks[k].fillType = "solid"
                    \/ backfillVisibleMasks[k].imageSnapshot # None
                    \/ k \in fails)
                => masks' = masks
            /\ \A k \in fails :
                 (\A j \in DOMAIN backfillVisibleMasks :
                     j # k => backfillVisibleMasks[j].id # backfillVisibleMasks[k].id)
                 => LeftAlone(k)]_vars

\* a global clone mask holding the strip of page 1, shown on the rendered
\* page 2: a pass in this state has nothing to capture
C18_Witness ==
    /\ CanvasPresent /\ ~loading /\ ~effectsPending
    /\ currentPage = 2 /\ canvasPage = 2
    /\ Len(masks) = 1
    /\ masks[1].pageIndex = None
    /\ masks[1].fillType # "solid"
    /\ masks[1].imageSnapshot = Some(1)

\* the step writes a snapshot into a mask that had none
WritesSnapshot ==
    /\ Len(masks') = Len(masks)
    /\ \E i \in DOMAIN masks :
          masks[i].imageSnapshot = None /\ masks'[i].imageSnapshot # None

\* C19: the backfill never captures or writes a snapshot while a page render
\* is in flight: a step that writes a snapshot starts and ends with no
\* render in flight.
C19_NoCaptureDuringRender ==
    [][WritesSnapshot => (rendering = << >> /\ rendering' = << >>)]_vars

(***************************************************************************)
(* SpecGeometry: the geometry of one mask under draw commits, drags,       *)
(* resizes with the 8 handles, numeric field edits and detector additions, *)
(* on a one-page document in the grid layout (200 x 100 px).               *)
(***************************************************************************)
\* pointer positions of the gestures: 10 px apart on both axes
GesturePoints == { <<0, 0>>, <<10, 10>> }
\* values typed into the W/H number fields, in 0.01 %
FieldValues == { 20 }
\* raw descriptors <<x, y, width, height, color>> returned by the mask detector
RawMasks == { <<500, 0, 1000, 20, << >> >> }

GeometrySessionNext ==
    \/ handleFileSelected
    \/ fileLoaded(1)
    \/ handleReset
    \/ renderDone(1)

GeometryGestureNext ==
    \/ \E pos \in GesturePoints : handleContainerMouseDown(pos)
    \/ \E k \in 1..MaxDrawn : handleMaskMouseDown(k, <<0, 0>>)
    \/ \E h \in ResizeHandles, k \in 1..MaxDrawn : handleResizeMouseDown(h, k, <<0, 0>>)
    \/ \E pos \in GesturePoints : handleGlobalMouseMove(pos)
    \/ \E pixel \in PixelColors : handleGlobalMouseUp(TRUE, pixel)

GeometryPanelNext ==
    \/ \E key \in {"width", "height"}, v \in FieldValues : handleMaskChange(key, v)
    \/ handleDeleteMask
    \/ \E k \in 1..MaxDrawn : onSelectMask(k)

GeometryDetectNext ==
    \/ handleAutoDetect
    \/ \E k \in 1..MaxDetections, raw \in RawMasks : detectMasksDone(k, <<raw>>)

NextGeometry ==
    GeometrySessionNext \/ GeometryGestureNext \/ GeometryPanelNext \/ GeometryDetectNext

SpecGeometry == InitDrawn /\ [][NextGeometry]_vars

\* the mask of the gesture as stored after a move
MovedAfter == findById(masks', Some(Val(initialMaskState).id))

\* the claim of C4 on one axis: origin and size written by a move against
\* the snapshot's origin and size and the percent delta
ShrinkSideHolds(originAfter, sizeAfter, origin, size, dPct) ==
    /\ sizeAfter >= MinSize
    /\ originAfter # origin => (sizeAfter = size - dPct /\ sizeAfter >= MinSize)
    /\ originAfter = origin => sizeAfter = size

\* C4: for every resize move event with a handle containing 'w' (and
\* symmetrically 'n' for height / y), the mask written to the store has
\* width >= 0.5, and its x differs from the gesture's initial snapshot x
\* only when the written width equals initial width minus the percent delta
\* and that value is >= 0.5; otherwise x and width are the snapshot's values.
C4_ShrinkSide ==
    [][\A pos \in GesturePoints :
          (/\ interactionState = "RESIZING"
           /\ IsSome(initialMaskState)
           /\ handleGlobalMouseMove(pos)
           /\ MovedAfter # None) =>
             LET init == Val(initialMaskState)
                 after == Val(MovedAfter)
             IN  /\ Includes(activeHandle, "w") =>
                      ShrinkSideHolds(after.x, after.width, init.x, init.width, dxPctOf(pos))
                 /\ Includes(activeHandle, "n") =>
                      ShrinkSideHolds(after.y, after.height, init.y, init.height, dyPctOf(pos))
    ]_vars

\* C5: in every reachable state, every mask in the store has width >= 0.5
\* and height >= 0.5 (percent).
C5_MinimumSize ==
    \A k \in DOMAIN masks : masks[k].width >= MinSize /\ masks[k].height >= MinSize

(***************************************************************************)
(* SpecEdit: geometry updates of one textured mask: a mask drawn on a      *)
(* one-page document in the grid layout (200 x 100 px), given a clone      *)
(* fill, textured by the snapshot backfill, then moved by a drag, resized  *)
(* by a handle, or edited through the X/Y/W/H number fields; the page      *)
(* render may fail.                                                        *)
(***************************************************************************)
\* the geometry fields of the controls panel
GeometryKeys == { "x", "y", "width", "height" }
\* values typed into the X/Y/W/H number fields, in 0.01 %
EditValues == { 1000 }
\* pointer positions of the drag and resize gestures
EditPoints == { <<0, 0>>, <<10, 10>> }

EditSessionNext ==
    \/ handleFileSelected
    \/ fileLoaded(1)
    \/ handleReset
    \/ renderDone(1)
    \/ \E blank \in BOOLEAN : renderFailed(1, blank)

EditDrawNext ==
    \/ handleContainerMouseDown(<<0, 0>>)
    \/ \E k \in 1..MaxDrawn : handleMaskMouseDown(k, <<0, 0>>)
    \/ \E k \in 1..MaxDrawn : handleResizeMouseDown(<<"s", "e">>, k, <<0, 0>>)
    \/ \E pos \in EditPoints : handleGlobalMouseMove(pos)
    \/ \E pixel \in PixelColors : handleGlobalMouseUp(TRUE, pixel)

EditPanelNext ==
    \/ handleMaskChange("fillType", "clone-top")
    \/ \E key \in GeometryKeys, v \in EditValues : handleMaskChange(key, v)
    \/ \E k \in 1..MaxDrawn : onSelectMask(k)
    \/ snapshotBackfill({})

NextEdit == EditSessionNext \/ EditDrawNext \/ EditPanelNext

SpecEdit == InitDrawn /\ [][NextEdit]_vars

\* the geometry of a mask
Geometry(m) == <<m.x, m.y, m.width, m.height>>

\* the step is an update of the store: a pointer move of a drag or a resize,
\* or an edit of a number field
IsGeometryUpdate ==
    \/ /\ interactionState \in {"DRAGGING", "RESIZING"}
       /\ \E pos \in EditPoints : handleGlobalMouseMove(pos)
    \/ \E key \in GeometryKeys, v \in EditValues : handleMaskChange(key, v)

\* C1: after any update that changes a stored mask's x, y, width or height
\* (a pointer drag move, a pointer resize move, or a numeric X/Y/W/H field
\* edit in the controls panel), that mask's imageSnapshot in the store is
\* undefined immediately after the update.
C1_GeometryClearsSnapshot ==
    [][IsGeometryUpdate =>
          \A k \in DOMAIN masks :
             (/\ k \in DOMAIN masks'
              /\ masks'[k].id = masks[k].id
              /\ Geometry(masks'[k]) # Geometry(masks[k])) =>
                 masks'[k].imageSnapshot = None
    ]_vars

(***************************************************************************)
(* SpecDetect: mask auto-detection on a document of two pages, with        *)
(* page navigation and draws while the detector call is in flight.         *)
(***************************************************************************)
\* answers of the mask detector: lists of raw descriptors
\* <<x, y, width, height, color>>
DetectorAnswers ==
    { << >>,
      << <<500, 0, 1000, 200, << >> >> >>,
      << <<500, 0, 1000, 200, << >> >>, <<0, 500, 100, 100, <<"#", "0", "0", "0">> >> >> }

DetectSessionNext ==
    \/ handleFileSelected
    \/ fileLoaded(2)
    \/ renderDone(1)
    \/ \E d \in {-1, 1} : onPageChange(d, {})

DetectDrawNext ==
    \/ handleContainerMouseDown(<<0, 0>>)
    \/ handleGlobalMouseMove(<<11, 11>>)
    \/ \E pixel \in PixelColors : handleGlobalMouseUp(TRUE, pixel)

DetectPipelineNext ==
    \/ handleAutoDetect
    \/ \E k \in 1..MaxDetections, raw \in DetectorAnswers : detectMasksDone(k, raw)

NextDetect == DetectSessionNext \/ DetectDrawNext \/ DetectPipelineNext \/ Tick

SpecDetect == Init /\ [][NextDetect]_vars

\* mask m is the detected form of the raw descriptor, assigned to page
\* (1-based)
IsDetectedFrom(m, raw, page) ==
    /\ m.fillType = "solid"
    /\ m.imageSnapshot = None
    /\ m.pageIndex = Some(page - 1)
    /\ <<m.x, m.y, m.width, m.height>> = <<raw[1], raw[2], raw[3], raw[4]>>

\* C13: every mask added by mask auto-detection has fillType 'solid', no
\* imageSnapshot, and pageIndex equal to (the page that was current when the
\* detection was requested) - 1, even if the user navigated to another page
\* while the call was in flight; the detected masks are appended after all
\* masks present at completion time, whose order and content are preserved;
\* an empty detector response leaves the store unchanged.
C13_DetectedMasks ==
    [][\A k \in 1..MaxDetections, raw \in DetectorAnswers :
          (k \in DOMAIN detections /\ detectMasksDone(k, raw)) =>
             /\ Len(masks') = Len(masks) + Len(raw)
             /\ SubSeq(masks', 1, Len(masks)) = masks
             /\ \A i \in 1..Len(raw) :
                   IsDetectedFrom(masks'[Len(masks) + i], raw[i], detections[k].page)
             /\ raw = << >> => masks' = masks
    ]_vars

\* a mask drawn on page 1 while the call requested on page 2 was in flight,
\* followed by the detected mask, which belongs to page 2
C13_Witness ==
    /\ currentPage = 1
    /\ Len(masks) = 2
    /\ Len(masks[1].id) = 1
    /\ masks[1].pageIndex = Some(0)
    /\ Len(masks[2].id) = 2
    /\ masks[2].pageIndex = Some(1)
    /\ masks[2].fillType = "solid"

(***************************************************************************)
(* SpecMarginDetector: the margin detector behind auto-detect in CROP      *)
(* mode, over the outcomes of its call, with slider edits before it.       *)
(***************************************************************************)
\* fields of a parsed answer: missing, 0 or 10 %
AnswerFields == { None, Some(0), Some(1000) }

FailureKinds == { "no-key", "api-error", "empty", "unparsable", "null" }

MarginOutcomes ==
    { MarginOutcome(kind, None, None, None, None) : kind \in FailureKinds }
    \cup { MarginOutcome("object", t, b, l, r) : t, b, l, r \in AnswerFields }

MarginDetectorNext ==
    \/ handleFileSelected
    \/ fileLoaded(1)
    \/ \E m \in {"CROP", "MASK"} : onModeChange(m)
    \/ \E key \in MarginKeys, v \in {0, 1000, 2000} : handleChange(key, v)
    \/ handleAutoDetect
    \/ \E k \in 1..MaxDetections : detectTimeout(k)
    \/ \E k \in 1..MaxDetections, outcome \in MarginOutcomes :
          detectMarginsAnswered(k, outcome)

SpecMarginDetector == Init /\ [][MarginDetectorNext]_vars

\* C14: on any failure of margin detection (missing API key, API/network
\* error, empty response, unparsable response) detectWatermarkMargins
\* returns all-zero margins and raises no error to its caller; on success
\* every missing or falsy field of the response is returned as 0.
C14_MarginFallback ==
    [][\A k \in 1..MaxDetections, outcome \in MarginOutcomes :
          detectMarginsAnswered(k, outcome) =>
             LET answer == detectWatermarkMargins(outcome)
             IN  /\ outcome.kind \in FailureKinds =>
                      /\ ~answer.threw
                      /\ answer.margins = ZeroMargins
                      /\ margins' = ZeroMargins
                 /\ outcome.kind = "object" =>
                      /\ ~answer.threw
                      /\ \A key \in {"top", "bottom", "left", "right"} :
                            (outcome.body[key] \in {None, Some(0)}) => answer.margins[key] = 0
                      /\ margins' = answer.margins
    ]_vars

(***************************************************************************)
(* Export (pdfService.ts, App.handleProcess).  Colour components are in    *)
(* units of 1/255; a rectangle is in 0.01 % of the page, measured from the *)
(* bottom-left corner as the PDF coordinates are.                          *)
(***************************************************************************)
LowerHex == <<"0", "1", "2", "3", "4", "5", "6", "7", "8", "9", "a", "b", "c", "d", "e", "f">>
UpperHex == <<"0", "1", "2", "3", "4", "5", "6", "7", "8", "9", "A", "B", "C", "D", "E", "F">>
IsHexDigit(c) == \E i \in 1..16 : LowerHex[i] = c \/ UpperHex[i] = c
HexDigitValue(c) == (CHOOSE i \in 1..16 : LowerHex[i] = c \/ UpperHex[i] = c) - 1

\* String.prototype.startsWith
startsWith(s, c) == Len(s) > 0 /\ s[1] = c

\* the leading white space parseInt skips
RECURSIVE trimStart(_)
trimStart(s) == IF startsWith(s, " ") THEN trimStart(Tail(s)) ELSE s

\* value of the longest prefix of hex digits of s, continuing from acc;
\* seen: whether a digit was read.  None stands for NaN.
RECURSIVE hexPrefix(_, _, _)
hexPrefix(s, acc, seen) ==
    IF Len(s) > 0 /\ IsHexDigit(s[1])
    THEN hexPrefix(Tail(s), acc * 16 + HexDigitValue(s[1]), TRUE)
    ELSE IF seen THEN Some(acc) ELSE None

\* parseInt(s, 16): white space, a sign, an optional 0x prefix, then the
\* longest prefix of hex digits; NaN when there is none
parseInt16(s) ==
    LET t == trimStart(s)
        negative == startsWith(t, "-")
        unsigned == IF startsWith(t, "-") \/ startsWith(t, "+") THEN Tail(t) ELSE t
        digits == IF Len(unsigned) >= 2 /\ unsigned[1] = "0" /\ unsigned[2] \in {"x", "X"}
                  THEN Tail(Tail(unsigned)) ELSE unsigned
        magnitude == hexPrefix(digits, 0, FALSE)
    IN  IF magnitude = None THEN None
        ELSE IF negative THEN Some(0 - Val(magnitude)) ELSE magnitude

\* isNaN(c) ? 1 : c
componentOrOne(parsed) == IF parsed = None THEN 255 ELSE Val(parsed)

\* hexToRgb: <<r, g, b>>; undefined takes the branch of the empty string
hexToRgb(hex) ==
    LET safeHex == IF startsWith(hex, "#") THEN hex ELSE White
        expanded == IF Len(safeHex) = 4
                    THEN <<"#", safeHex[2], safeHex[2], safeHex[3], safeHex[3],
                           safeHex[4], safeHex[4]>>
                    ELSE safeHex
        sized == IF Len(expanded) # 7 THEN White ELSE expanded
    IN  << componentOrOne(parseInt16(SubSeq(sized, 2, 3))),
           componentOrOne(parseInt16(SubSeq(sized, 4, 5))),
           componentOrOne(parseInt16(SubSeq(sized, 6, 7))) >>

\* one drawing operation on a page
DrawOp(kind, id, color, x, y, w, h) ==
    [kind |-> kind, id |-> id, color |-> color, x |-> x, y |-> y, width |-> w, height |-> h]

\* the body of the loop over pageMasks: drawImage of the embedded snapshot,
\* or drawRectangle in the mask's colour; embeds: embedPng succeeds
drawMaskImageForClone(mask, embeds) ==
    LET y == 10000 - mask.y - mask.height
    IN  IF mask.fillType # "solid"
        THEN DrawOp("image", mask.id, None, mask.x, y, mask.width, mask.height)
        ELSE DrawOp("rect", mask.id, Some(hexToRgb(mask.color)), mask.x, y, mask.width, mask.height)
drawMask(mask, embeds) ==
    LET y == 10000 - mask.y - mask.height
    IN  IF mask.fillType # "solid" /\ IsSome(mask.imageSnapshot) /\ embeds
        THEN DrawOp("image", mask.id, None, mask.x, y, mask.width, mask.height)
        ELSE DrawOp("rect", mask.id, Some(hexToRgb(mask.color)), mask.x, y, mask.width, mask.height)

\* the operations drawn on page i (0-based), in the order of pageMasks;
\* failing: ids of the masks whose snapshot does not embed
drawPage(ms, i, failing) ==
    [k \in 1..Len(pageMasks(ms, i)) |->
        drawMask(pageMasks(ms, i)[k], pageMasks(ms, i)[k].id \notin failing)]

\* modifyPdfWithMasks: the saved document, page by page
modifyPdfWithMasks(ms, pages, failing) ==
    [kind |-> "patched", pages |-> [p \in 1..pages |-> drawPage(ms, p - 1, failing)]]

\* cropAndDownloadPdf: the saved document, every page with the same crop box
cropAndDownloadPdf(m, pages) ==
    [kind |-> "cropped", pages |-> [p \in 1..pages |-> cropBox(m, 960, 540)]]

\* handleProcess up to its 500 ms wait: the call closes over the mode, the
\* masks, the margins and the document of this render
handleProcess ==
    /\ UNCHANGED storeLimit
    /\ appState = "READY"
    /\ fileData
    /\ appState' = "PROCESSING"
    /\ processing' = Some([editMode |-> editMode, masks |-> masks, margins |-> margins,
                           numPages |-> numPages])
    /\ UNCHANGED <<download, fileData, editMode, isFullscreen, currentPage, numPages,
                   maskVars, marginVars, detectVars, renderVars, gestureVars, now>>

\* handleProcess after the wait: the export runs, throws: it fails as a
\* whole (alert in the catch); finally setAppState(READY).
\* fails: store positions of the masks whose snapshot does not embed.
processDone(throws, fails) ==
    /\ UNCHANGED storeLimit
    /\ IsSome(processing)
    /\ LET call == Val(processing)
           failing == { call.masks[k].id : k \in fails \cap DOMAIN call.masks }
       IN  /\ fails \subseteq DOMAIN call.masks
           /\ download' = IF throws THEN download
                          ELSE IF call.editMode = "CROP"
                               THEN Some(cropAndDownloadPdf(call.margins, call.numPages))
                               ELSE Some(modifyPdfWithMasks(call.masks, call.numPages, failing))
    /\ processing' = None
    /\ appState' = "READY"
    /\ UNCHANGED <<fileData, editMode, isFullscreen, currentPage, numPages,
                   maskVars, marginVars, detectVars, renderVars, gestureVars, now>>

(***************************************************************************)
(* SpecExport: exports, in both modes, of a three-page document whose      *)
(* store holds up to two drawn masks of either scope and fill.             *)
(***************************************************************************)
ExportPages == 3
\* masks held by the store of the exported session
ExportMasks == 2

\* the states of a mask drawn at time t on a page: left page-specific or
\* made global, solid or clone-top, and a clone fill with or without the
\* strip captured on that page
ExportMaskStates(t, page) ==
    { [drawnMask(rawRect(<<0, 0>>, <<11, 11>>), ContainerSize(FALSE), t, color, page)
          EXCEPT !.pageIndex = IF global THEN None ELSE Some(page - 1),
                 !.fillType = fill,
                 !.imageSnapshot = IF fill # "solid" /\ captured THEN Some(page) ELSE None] :
        color \in PixelColors, global \in BOOLEAN,
        fill \in {"solid", "clone-top"}, captured \in BOOLEAN }

\* stores of a mask drawn on page 1 and then a mask drawn on page 2
ExportStores ==
    {<< >>} \cup { <<a>> : a \in ExportMaskStates(0, 1) }
            \cup { <<a, b>> : a \in ExportMaskStates(0, 1), b \in ExportMaskStates(1, 2) }

\* the session once the document is loaded, page 1 is rendered and the
\* masks of one of the stores are drawn, the last one selected
InitExportWith(stores) ==
    /\ storeLimit = ExportMasks
    /\ appState = "READY"
    /\ fileData = TRUE
    /\ editMode = "MASK"
    /\ isFullscreen = FALSE
    /\ currentPage = 1
    /\ numPages = ExportPages
    /\ margins = ZeroMargins
    /\ masks \in stores
    /\ selectedMaskId = IF masks = << >> THEN None ELSE Some(masks[Len(masks)].id)
    /\ isAutoDetecting = FALSE
    /\ detections = << >>
    /\ processing = None
    /\ download = None
    /\ loading = FALSE
    /\ rendering = << >>
    /\ canvasPage = 1
    /\ effectsPending = FALSE
    /\ interactionState = "IDLE"
    /\ activeHandle = None
    /\ startPos = None
    /\ currentPos = None
    /\ initialMaskState = None
    /\ listeners = << >>
    /\ now = 2

InitExport == InitExportWith(ExportStores)

NextExport ==
    \/ \E mode \in {"CROP", "MASK"} : onModeChange(mode)
    \/ handleProcess
    \/ \E throws \in BOOLEAN, fails \in SUBSET (1..ExportMasks) : processDone(throws, fails)

SpecExport == InitExport /\ [][NextExport]_vars

\* the operation drawn for mask m: its rectangle, an image overlay iff the
\* fill is not solid, a snapshot is held and the embed succeeds, and a
\* rectangle in the mask's colour otherwise
IsDrawingOf(op, m, embeds) ==
    /\ op.id = m.id
    /\ <<op.x, op.y, op.width, op.height>> = <<m.x, 10000 - m.y - m.height, m.width, m.height>>
    /\ op.kind = "image" <=> (m.fillType # "solid" /\ IsSome(m.imageSnapshot) /\ embeds)
    /\ op.kind = "rect" <=> ~(m.fillType # "solid" /\ IsSome(m.imageSnapshot) /\ embeds)
    /\ op.kind = "rect" => op.color = Some(hexToRgb(m.color))

\* page by page, doc holds one operation for each mask of ms that applies to
\* the page, in store order, and nothing else
IsExportOf(doc, ms, pages, failing) ==
    /\ doc.kind = "patched"
    /\ DOMAIN doc.pages = 1..pages
    /\ \A p \in 1..pages :
          /\ Len(doc.pages[p]) = Cardinality(AppliesTo(ms, p - 1))
          /\ \A k \in 1..Len(doc.pages[p]) :
                LET m == ms[KthOf(AppliesTo(ms, p - 1), k)]
                IN  IsDrawingOf(doc.pages[p][k], m, m.id \notin failing)

\* C15: an export with masks that is not aborted by the document itself
\* draws on every page i exactly the masks whose pageIndex is undefined or
\* i, once each; a mask is an image overlay iff its fill is not solid, it
\* has a snapshot and the embed succeeds, and a rectangle in its colour in
\* every other case; a failed embed neither aborts the export nor skips the
\* mask.
C15_ExportDraws ==
    [][\A fails \in SUBSET (1..ExportMasks) :
         (processDone(FALSE, fails) /\ Val(processing).editMode = "MASK")
         => /\ IsSome(download')
            /\ IsExportOf(Val(download'), Val(processing).masks, Val(processing).numPages,
                           { Val(processing).masks[k].id : k \in fails })]_vars

\* the export of a global solid mask and a clone mask of page 2 holding a
\* snapshot, on the three-page document: pages 1 and 3 carry the rectangle
\* only, page 2 the rectangle and the overlay
C15_Witness ==
    /\ IsSome(download)
    /\ Val(download).kind = "patched"
    /\ Len(Val(download).pages) = 3
    /\ Len(Val(download).pages[1]) = 1 /\ Val(download).pages[1][1].kind = "rect"
    /\ Len(Val(download).pages[2]) = 2
    /\ Val(download).pages[2][1].kind = "rect" /\ Val(download).pages[2][2].kind = "image"
    /\ Len(Val(download).pages[3]) = 1 /\ Val(download).pages[3][1].id = Val(download).pages[2][1].id

(***************************************************************************)
(* SpecColor: exports of a solid mask whose colour is typed into the text  *)
(* field of the panel.                                                     *)
(***************************************************************************)
\* strings typed into the colour text field: empty, without '#', of a wrong
\* length, in short form, with letters that are not hex digits, well-formed
HexInputs ==
    { << >>,
      <<"F", "F", "0", "0", "0", "0">>,
      <<"#", "F", "F", "0", "0">>,
      <<"#", "F", "F", "0", "0", "0", "0", "0", "0">>,
      <<"#", "F", "F", "F">>,
      <<"#", "F", "0", "0">>,
      <<"#", "Z", "Z", "Z", "Z", "Z", "Z">>,
      <<"#", "G", "G", "0", "0", "0", "0">>,
      <<"#", "1", "G", "2", "H", "3", "Z">>,
      <<"#", "0", "x", "0", "X", "1", "0">>,
      <<"#", "f", "f", "0", "0", "0", "0">>,
      <<"#", "1", "A", "2", "B", "3", "C">> }

\* the store of one solid mask drawn on page 1
ColorStores == { <<a>> : a \in { m \in ExportMaskStates(0, 1) : m.fillType = "solid" } }

InitColor == InitExportWith(ColorStores)

NextColor ==
    \/ \E v \in HexInputs : handleMaskChange("color", v)
    \/ toggleMaskScope
    \/ handleProcess
    \/ \E throws \in BOOLEAN : processDone(throws, {})

SpecColor == InitColor /\ [][NextColor]_vars

\* '#' followed by six hex digits
IsWellFormedHex(hex) ==
    /\ Len(hex) = 7
    /\ hex[1] = "#"
    /\ \A i \in 2..7 : IsHexDigit(hex[i])

\* C16: the rectangle that an export draws for a mask whose colour is not a
\* well-formed '#RRGGBB' string is white (r = g = b = 1), and no component
\* of any drawn colour is NaN.
C16_MalformedIsWhite ==
    [][(processDone(FALSE, {}) /\ Val(processing).editMode = "MASK")
       => \A p \in 1..Val(processing).numPages :
            \A k \in 1..Len(pageMasks(Val(processing).masks, p - 1)) :
              LET drawn == Val(Val(download').pages[p][k].color)
              IN  /\ \A c \in 1..3 : drawn[c] \in Int
                  /\ ~IsWellFormedHex(pageMasks(Val(processing).masks, p - 1)[k].color)
                       => drawn = <<255, 255, 255>>]_vars

(***************************************************************************)
(* C17.  The window listeners of a gesture.                                *)
(***************************************************************************)
\* the listeners of a type attached to window
AttachedOf(type) == SelectSeq(listeners, LAMBDA l : l.type = type)

\* C17: once the effects of a render have run, a mousemove and a mouseup
\* listener are attached iff the interaction state is not IDLE, at most one
\* of each; none is attached in IDLE or while the preview is unmounted; and
\* every attached listener is the handler of the current render, so that no
\* event reaches a handler of a previous interaction.
C17_ListenersFollowState ==
    /\ \A type \in {"mousemove", "mouseup"} :
          /\ Attached(type) <=> interactionState # "IDLE"
          /\ Len(AttachedOf(type)) <= 1
    /\ ~PreviewMounted => listeners = << >>
    /\ \A i \in DOMAIN listeners : \E j \in DOMAIN globalHandlers : listeners[i] = globalHandlers[j]

\* a drag of a mask drawn by an earlier gesture, after a pointer move
C17_Witness ==
    /\ interactionState = "DRAGGING"
    /\ Len(masks) = 1
    /\ IsSome(currentPos)
    /\ Len(listeners) = 2

(***************************************************************************)
(* SpecRender: page renders of a session in which the first page change    *)
(* may arrive before the mount effects of the preview have run.            *)
(***************************************************************************)
\* renders in flight on one canvas
MaxRenders == 2

RenderSessionNext ==
    \/ handleFileSelected
    \/ \E n \in 1..MaxPages : fileLoadedCommit(n)
    \/ mountEffects
    \/ handleReset

RenderPageNext ==
    \/ \E d \in {-1, 1} : onPageChange(d, {})
    \/ \E k \in 1..MaxRenders : renderDone(k)

NextRender == RenderSessionNext \/ RenderPageNext \/ FillDrawNext \/ Tick

SpecRender == InitDrawn /\ [][NextRender]_vars

\* C20: for every interleaving of overlapping page renders, once no render
\* is in flight the canvas shows the raster of the current page.
C20_CanvasShowsCurrentPage ==
    (CanvasPresent /\ ~effectsPending /\ rendering = << >>) => canvasPage = currentPage

(***************************************************************************)
(* SpecSession: file selection, load, failure and reset around a session   *)
(* with draws, page changes, margin edits and mask detection, whose        *)
(* answers may arrive after a reset.                                       *)
(***************************************************************************)
\* MIME types of the selected file
FileTypes == { "application/pdf", "image/png" }

SessionFileNext ==
    \/ \E type \in FileTypes : validateAndPassFile(type)
    \/ \E n \in 1..MaxPages : fileLoaded(n)
    \/ fileLoadFailed
    \/ handleReset

SessionEditNext ==
    \/ onPageChange(1, {})
    \/ renderDone(1)
    \/ \E m \in {"CROP", "MASK"} : onModeChange(m)
    \/ handleChange("top", 1000)
    \/ handleAutoDetect
    \/ \E k \in 1..MaxDetections : detectMasksDone(k, << <<500, 0, 1000, 200, << >> >> >>)
    \/ \E k \in 1..MaxDetections : detectMarginsDone(k, [top |-> 500, bottom |-> 0, left |-> 0, right |-> 0])

NextSession == SessionFileNext \/ SessionEditNext \/ FillDrawNext

SpecSession == InitDrawn /\ [][NextSession]_vars

\* the session state named by the load: document, masks, margins,
\* selection, current page and page count
sessionVars == <<fileData, masks, margins, selectedMaskId, currentPage, numPages>>

\* C21: the selection of a file that is not of type application/pdf, and a
\* load or page count that fails, leave document, masks, margins, selection,
\* current page and page count as they were, and the application state is
\* IDLE afterwards.
C21_FailedSelectionKeepsSession ==
    [][/\ \A type \in FileTypes :
            (type # "application/pdf" /\ appState = "IDLE" /\ validateAndPassFile(type))
            => (UNCHANGED sessionVars /\ appState' = "IDLE")
       /\ fileLoadFailed => (UNCHANGED sessionVars /\ appState' = "IDLE")]_vars

\* a load in flight over a store that a late detection answer has filled:
\* its failure has a mask to leave in place
C21_Witness ==
    /\ appState = "LOADING"
    /\ Len(masks) = 1
    /\ ~fileData

\* C22: after every successful file load and after every reset the margins
\* are all zero, the mask store is empty, no mask is selected and the
\* current page is 1.
C22_LoadAndResetClear ==
    [][((\E n \in 1..MaxPages : fileLoaded(n)) \/ handleReset)
       => /\ margins' = ZeroMargins
          /\ masks' = << >>
          /\ selectedMaskId' = None
          /\ currentPage' = 1]_vars

\* a session on page 2 with a selected mask and a margin, where reset is
\* offered
C22_Witness ==
    /\ appState = "READY" /\ fileData /\ ~isFullscreen
    /\ currentPage = 2
    /\ Len(masks) = 1 /\ selectedMaskId = Some(masks[1].id)
    /\ margins.top > 0

(***************************************************************************)
(* SpecUpdate: the store of up to MaxMasks masks under the writers of      *)
(* handleUpdateMask: fill edits of a mask picked in the patch list and the *)
(* snapshot backfill, with draws, deletion and page changes.               *)
(***************************************************************************)
UpdateSessionNext ==
    \/ handleFileSelected
    \/ fileLoaded(2)
    \/ \E d \in {-1, 1} : onPageChange(d, {})
    \/ renderDone(1)

UpdatePanelNext ==
    \/ handleMaskChange("fillType", "clone-top")
    \/ \E k \in 1..MaxMasks : onSelectMask(k)
    \/ handleDeleteMask
    \/ \E fails \in SUBSET (1..MaxMasks) : snapshotBackfill(fails)

NextUpdate == UpdateSessionNext \/ FillDrawNext \/ UpdatePanelNext \/ Tick

SpecUpdate == Init /\ [][NextUpdate]_vars

\* the masks of the store differ pairwise in their id
DistinctIds == \A i, j \in DOMAIN masks : i # j => masks[i].id # masks[j].id

\* the step keeps the number and the order of the masks and changes at most
\* the masks with the given ids
OnlyChanges(ids) ==
    /\ Len(masks') = Len(masks)
    /\ \A i \in DOMAIN masks : masks[i].id \notin ids => masks'[i] = masks[i]

\* positions of the visible list whose mask the pass updates
UpdatedBy(fails) ==
    { k \in DOMAIN backfillVisibleMasks :
        /\ backfillVisibleMasks[k].fillType # "solid"
        /\ backfillVisibleMasks[k].imageSnapshot = None
        /\ k \notin fails }

\* C23: every update(mask) replaces exactly the stored mask with the id of
\* the given value and changes nothing else: after an edit of the selected
\* mask only that mask differs, and after a backfill pass the store is the
\* one before with each updated mask replaced by the value given for it,
\* every other mask, the number and the order being unchanged.
C23_UpdateReplacesOne ==
    [][DistinctIds =>
         /\ handleMaskChange("fillType", "clone-top")
              => OnlyChanges({ Val(selectedMask).id })
         /\ \A fails \in SUBSET (1..MaxMasks) :
              snapshotBackfill(fails)
              => /\ OnlyChanges({ backfillVisibleMasks[k].id : k \in UpdatedBy(fails) })
                 /\ \A k \in UpdatedBy(fails) :
                      \E i \in DOMAIN masks' :
                          masks'[i] = [backfillVisibleMasks[k] EXCEPT
                                          !.imageSnapshot = Some(canvasPage)]]_vars

(***************************************************************************)
(* Floating-point arithmetic of the coordinate conversions.  A number is   *)
(* [m, e] standing for m * 2^e with FloatBits significant bits in m (m = 0 *)
(* for zero); every operation rounds to nearest, ties to even, as the      *)
(* IEEE 754 arithmetic of the source does with 53 bits.                    *)
(***************************************************************************)
FloatBits == 11

RECURSIVE TwoTo(_)
TwoTo(n) == IF n = 0 THEN 1 ELSE 2 * TwoTo(n - 1)

RECURSIVE BitLen(_)
BitLen(n) == IF n = 0 THEN 0 ELSE 1 + BitLen(n \div 2)

FloatZero == [m |-> 0, e |-> 0]
\* the result of a division by zero (Infinity or NaN)
FloatNaN == [m |-> -1, e |-> 0]

\* n * 2^e rounded to FloatBits significant bits
RoundTo(n, e) ==
    IF n = 0 THEN FloatZero
    ELSE IF BitLen(n) <= FloatBits
    THEN [m |-> n * TwoTo(FloatBits - BitLen(n)), e |-> e - (FloatBits - BitLen(n))]
    ELSE LET shift == BitLen(n) - FloatBits
             q == n \div TwoTo(shift)
             r == n % TwoTo(shift)
             half == TwoTo(shift - 1)
             up == r > half \/ (r = half /\ q % 2 = 1)
             rounded == IF up THEN q + 1 ELSE q
         IN  IF rounded = TwoTo(FloatBits)
             THEN [m |-> TwoTo(FloatBits - 1), e |-> e + shift + 1]
             ELSE [m |-> rounded, e |-> e + shift]

\* the number of an integer of pixels or of a size
FromInt(n) == RoundTo(n, 0)

\* a * b
FloatMul(a, b) ==
    IF a.m < 0 \/ b.m < 0 THEN FloatNaN
    ELSE IF a.m = 0 \/ b.m = 0 THEN FloatZero
    ELSE RoundTo(a.m * b.m, a.e + b.e)

\* a / b: the quotient with FloatBits + 2 further bits and a sticky bit
FloatDiv(a, b) ==
    IF a.m < 0 \/ b.m <= 0 THEN FloatNaN
    ELSE IF a.m = 0 THEN FloatZero
    ELSE LET num == a.m * TwoTo(FloatBits + 2)
             sticky == IF num % b.m = 0 THEN 0 ELSE 1
         IN  RoundTo(2 * (num \div b.m) + sticky, a.e - b.e - (FloatBits + 2) - 1)

\* (value / 100) * size of captureMaskSnapshot
toPixels(value, size) == FloatMul(FloatDiv(value, FromInt(100)), size)

\* px / size, the factor 100 left out
toPercentFraction(px, size) == FloatDiv(px, size)

\* (px / size) * 100 of handleGlobalMouseUp
toPercent(px, size) == FloatMul(FloatDiv(px, size), FromInt(100))

(***************************************************************************)
(* SpecScale: rectangles drawn in both layouts, with the pointer at        *)
(* several positions.                                                      *)
(***************************************************************************)
\* pointer positions of the draws, px relative to the container
ScalePoints == { <<0, 0>>, <<7, 13>>, <<37, 53>>, <<101, 99>>, <<200, 100>> }

\* <<width, height>> of the canvas raster: the default canvas, a letter page
\* and a 16:9 slide at scale 1.5
RasterSizes == { <<300, 150>>, <<918, 1188>>, <<1440, 810>> }

NextScale ==
    \/ handleFileSelected
    \/ fileLoaded(1)
    \/ renderDone(1)
    \/ toggleFullscreen({})
    \/ \E pos \in ScalePoints : handleContainerMouseDown(pos)
    \/ \E pos \in ScalePoints : handleGlobalMouseMove(pos)
    \/ \E pixel \in PixelColors : handleGlobalMouseUp(TRUE, pixel)
    \/ handleDeleteMask

SpecScale == InitDrawn /\ [][NextScale]_vars

\* units in the last place between two numbers
UlpsApart(a, b) ==
    IF a.m < 0 \/ b.m < 0 THEN 1000
    ELSE IF a.m = 0 \/ b.m = 0 THEN (IF a.m = b.m THEN 0 ELSE 1000)
    ELSE IF Abs(a.e - b.e) > 2 THEN 1000
    ELSE Abs(a.m * TwoTo(a.e - Min(a.e, b.e)) - b.m * TwoTo(b.e - Min(a.e, b.e)))

\* the rectangle between the recorded pointer positions, px
DrawnRaw == rawRect(Val(startPos), Val(currentPos))
\* the axis of component c of a rectangle <<x, y, w, h>>
AxisOf(c) == IF c \in {1, 3} THEN 1 ELSE 2

\* C24: for the rectangle of every draw gesture and every raster size, the
\* percentage rectangle mapped to raster pixels (value / 100 * size) and
\* back (pixel / size * 100) is the original rectangle within 4
\* units in the last place (one for each rounded operation), and the rectangle in container pixels
\* converted to percent maps back to the same container pixels.
C24_ScaleRoundTrip ==
    (IsSome(startPos) /\ IsSome(currentPos)) =>
        \A c \in 1..4 :
            LET size == FromInt(ContainerSize(isFullscreen)[AxisOf(c)])
                px == FromInt(DrawnRaw[c])
                pct == toPercent(px, size)
            IN  /\ UlpsApart(toPixels(pct, size), px) <= 4
                /\ \A raster \in RasterSizes :
                      UlpsApart(toPercent(toPixels(pct, FromInt(raster[AxisOf(c)])),
                                          FromInt(raster[AxisOf(c)])), pct) <= 4

\* a draw of 64 x 46 px at (37, 53) in the fullscreen layout: 9.25 %, 26.5 %,
\* 16 % and 23 % of 400 x 200 px
C24_Witness ==
    /\ interactionState = "DRAWING"
    /\ isFullscreen
    /\ IsSome(startPos) /\ IsSome(currentPos)
    /\ DrawnRaw = <<37, 53, 64, 46>>

(***************************************************************************)
(* SpecGesture: the interaction state machine under pointer-downs on the   *)
(* canvas, on masks and on resize handles in every state, moves, releases  *)
(* and mode changes, over a store of up to MaxDrawn drawn masks.           *)
(***************************************************************************)
\* pointer positions, px relative to the container
PointerPoints == { <<0, 0>>, <<10, 10>> }

GestureSessionNext ==
    \/ handleFileSelected
    \/ fileLoaded(1)
    \/ renderDone(1)
    \/ \E m \in {"CROP", "MASK"} : onModeChange(m)

GestureDownNext ==
    \/ \E pos \in PointerPoints : handleContainerMouseDown(pos)
    \/ \E k \in 1..MaxDrawn, pos \in PointerPoints : handleMaskMouseDown(k, pos)
    \/ \E h \in ResizeHandles, k \in 1..MaxDrawn : handleResizeMouseDown(h, k, <<10, 10>>)

GestureMoveNext ==
    \/ \E pos \in PointerPoints : handleGlobalMouseMove(pos)
    \/ \E pixel \in PixelColors : handleGlobalMouseUp(TRUE, pixel)

NextGesture == GestureSessionNext \/ GestureDownNext \/ GestureMoveNext

SpecGesture == InitDrawn /\ [][NextGesture]_vars

\* the stored mask of the gesture
GestureMask == findById(masks, Some(Val(initialMaskState).id))

\* C25: during a DRAGGING gesture, after every move event the stored mask's
\* x and y are the x and y of the gesture's initial snapshot plus the
\* percent delta between the pointer position of that event and the
\* recorded start position, whatever the moves before; with the pointer
\* back at the start position they are the initial x and y.
C25_DragFollowsPointer ==
    [][\A pos \in PointerPoints :
         (/\ interactionState = "DRAGGING"
          /\ IsSome(initialMaskState) /\ IsSome(startPos)
          /\ IsSome(GestureMask)
          /\ handleGlobalMouseMove(pos))
         => /\ IsSome(MovedAfter)
            /\ Val(MovedAfter).x = Val(initialMaskState).x
                  + Pct(pos[1] - Val(startPos)[1], ContainerSize(isFullscreen)[1])
            /\ Val(MovedAfter).y = Val(initialMaskState).y
                  + Pct(pos[2] - Val(startPos)[2], ContainerSize(isFullscreen)[2])
            /\ pos = Val(startPos)
                 => <<Val(MovedAfter).x, Val(MovedAfter).y>>
                    = <<Val(initialMaskState).x, Val(initialMaskState).y>>]_vars

\* a drag of the mask drawn at the origin, the pointer at the start
\* position after a move event
C25_Witness ==
    /\ interactionState = "DRAGGING"
    /\ currentPos = startPos
    /\ startPos = Some(<<10, 10>>)
    /\ IsSome(initialMaskState)
    /\ Val(initialMaskState).x = 0
    /\ IsSome(GestureMask)
    /\ Val(GestureMask).x = 0
    /\ Val(GestureMask).imageSnapshot = None

\* C26: a mouse-down on the empty canvas in MASK mode and IDLE state enters
\* DRAWING with the selection cleared, start point and current point both
\* at the pointer position and the mask store unchanged; in CROP mode or in
\* a state other than IDLE it changes nothing.
C26_CanvasDownStartsDrawing ==
    [][\A pos \in PointerPoints :
         handleContainerMouseDown(pos)
         => IF editMode = "MASK" /\ interactionState = "IDLE"
            THEN /\ interactionState' = "DRAWING"
                 /\ selectedMaskId' = None
                 /\ startPos' = Some(pos)
                 /\ currentPos' = Some(pos)
                 /\ masks' = masks
            ELSE UNCHANGED vars]_vars

\* a drawing just started at (10, 10) over the mask drawn before, whose
\* selection the mouse-down has cleared
C26_Witness ==
    /\ interactionState = "DRAWING"
    /\ startPos = Some(<<10, 10>>)
    /\ currentPos = startPos
    /\ selectedMaskId = None
    /\ Len(masks) = 1

\* C27: in IDLE, a mouse-down on a mask enters DRAGGING, selects the mask and
\* records the stored mask as the snapshot; a mouse-down on a resize handle
\* enters RESIZING and records the stored mask as the snapshot and the
\* handle; both record the start point and leave the mask store unchanged.
C27_MaskDownStartsGesture ==
    [][\A k \in 1..MaxMasks, pos \in PointerPoints :
         /\ (interactionState = "IDLE" /\ k \in DOMAIN masks
                /\ handleMaskMouseDown(k, pos))
            => /\ interactionState' = "DRAGGING"
               /\ selectedMaskId' = Some(masks[k].id)
               /\ initialMaskState' = Some(masks[k])
               /\ startPos' = Some(pos)
               /\ masks' = masks
         /\ \A h \in ResizeHandles :
              (interactionState = "IDLE" /\ k \in DOMAIN masks
                 /\ handleResizeMouseDown(h, k, pos))
              => /\ interactionState' = "RESIZING"
                 /\ initialMaskState' = Some(masks[k])
                 /\ activeHandle' = h
                 /\ startPos' = Some(pos)
                 /\ masks' = masks]_vars

\* a resize just started from IDLE with the south-east handle of the
\* selected mask: no move event yet
C27_Witness ==
    /\ interactionState = "RESIZING"
    /\ activeHandle = <<"s", "e">>
    /\ currentPos = None
    /\ startPos = Some(<<10, 10>>)
    /\ Len(masks) = 1
    /\ initialMaskState = Some(masks[1])
    /\ selectedMaskId = Some(masks[1].id)

\* C28: a mouse-down on a mask or on a resize handle received in a state
\* other than IDLE changes neither the interaction state nor the recorded
\* snapshot, start point and active handle.
C28_GesturesStartFromIdle ==
    [][\A k \in 1..MaxMasks, pos \in PointerPoints :
         (/\ interactionState # "IDLE"
          /\ \/ handleMaskMouseDown(k, pos)
             \/ \E h \in ResizeHandles : handleResizeMouseDown(h, k, pos))
         => UNCHANGED <<interactionState, initialMaskState, startPos, activeHandle>>]_vars

\* C29: in every reachable state IDLE implies that start point, current
\* point, snapshot and active handle are all null; every mouse-up received
\* in a state other than IDLE ends in IDLE with the four of them null, and a
\* mouse-up that ends DRAGGING or RESIZING leaves the mask store unchanged.
C29_PointerUpClears ==
    /\ [](interactionState = "IDLE"
            => /\ startPos = None /\ currentPos = None
               /\ initialMaskState = None /\ activeHandle = None)
    /\ [][\A pixel \in PixelColors :
            (interactionState # "IDLE" /\ handleGlobalMouseUp(TRUE, pixel))
            => /\ interactionState' = "IDLE"
               /\ startPos' = None /\ currentPos' = None
               /\ initialMaskState' = None /\ activeHandle' = None
               /\ interactionState \in {"DRAGGING", "RESIZING"}
                    => masks' = masks]_vars

\* IDLE again after a drag by (10, 10) px of the mask drawn at the origin:
\* the mask keeps the drawn width
C29_Witness ==
    /\ interactionState = "IDLE"
    /\ startPos = None /\ currentPos = None
    /\ initialMaskState = None /\ activeHandle = None
    /\ Len(masks) = 1
    /\ masks[1].x = 500 /\ masks[1].y = 1000
    /\ masks[1].width = 500 /\ masks[1].height = 1000

(***************************************************************************)
(* SpecFrame: gestures over a store of two masks with different ids, a    *)
(* solid mask of page 1 and a global clone mask with its snapshot.        *)
(***************************************************************************)
\* pointer positions of SpecFrame: a move by (10, 5) px is 5 % x 5 %, so
\* that a mask of 5 % x 5 % can grow once on each axis within MaxCoord, and
\* a rectangle of 10 x 5 px is not above the drawing threshold
FramePoints == { <<0, 0>>, <<10, 5>> }

\* a mask drawn on page 1 at time 0 and a mask drawn at time 1, made global
\* and filled from the row above it
FrameStores ==
    { << Mask(<<0>>, 0, 0, 500, 500, color, "solid", None, Some(0)),
         Mask(<<1>>, 500, 500, 500, 500, color, "clone-top", Some(1), None) >> :
        color \in PixelColors }

FrameDownNext ==
    \/ handleContainerMouseDown(<<0, 0>>)
    \/ \E k \in 1..MaxMasks : handleMaskMouseDown(k, <<0, 0>>)
    \/ \E h \in ResizeHandles, k \in 1..MaxMasks : handleResizeMouseDown(h, k, <<0, 0>>)

FrameMoveNext ==
    \/ \E pos \in FramePoints : handleGlobalMouseMove(pos)
    \/ \E pixel \in PixelColors : handleGlobalMouseUp(TRUE, pixel)

NextFrame == FrameDownNext \/ FrameMoveNext

SpecFrame == InitExportWith(FrameStores) /\ [][NextFrame]_vars

\* the attributes a gesture never writes
SameAttributes(m, init) ==
    /\ m.id = init.id /\ m.color = init.color
    /\ m.fillType = init.fillType /\ m.pageIndex = init.pageIndex

\* the masks with another id than the gesture's mask are as they were
OthersUnchanged ==
    /\ Len(masks') = Len(masks)
    /\ \A i \in DOMAIN masks :
         masks[i].id # Val(initialMaskState).id => masks'[i] = masks[i]

\* C30: a move event in DRAGGING leaves width, height, color, fillType,
\* pageIndex and id of the dragged mask at the snapshot's values; in RESIZING
\* it leaves color, fillType, pageIndex and id at the snapshot's values, and
\* y and height too for the handles 'e' and 'w', x and width too for the
\* handles 'n' and 's'; in both, every mask with another id is unchanged; a
\* move event in DRAWING leaves the mask store unchanged.
C30_MoveFrame ==
    [][\A pos \in FramePoints :
         handleGlobalMouseMove(pos)
         => /\ interactionState = "DRAWING" => masks' = masks
            /\ (interactionState = "DRAGGING" /\ IsSome(initialMaskState)
                   /\ IsSome(startPos) /\ IsSome(GestureMask))
               => /\ IsSome(MovedAfter)
                  /\ SameAttributes(Val(MovedAfter), Val(initialMaskState))
                  /\ Val(MovedAfter).width = Val(initialMaskState).width
                  /\ Val(MovedAfter).height = Val(initialMaskState).height
                  /\ OthersUnchanged
            /\ (interactionState = "RESIZING" /\ IsSome(initialMaskState)
                   /\ IsSome(startPos) /\ IsSome(activeHandle) /\ IsSome(GestureMask))
               => /\ IsSome(MovedAfter)
                  /\ SameAttributes(Val(MovedAfter), Val(initialMaskState))
                  /\ activeHandle \in { <<"e">>, <<"w">> }
                       => /\ Val(MovedAfter).y = Val(initialMaskState).y
                          /\ Val(MovedAfter).height = Val(initialMaskState).height
                  /\ activeHandle \in { <<"n">>, <<"s">> }
                       => /\ Val(MovedAfter).x = Val(initialMaskState).x
                          /\ Val(MovedAfter).width = Val(initialMaskState).width
                  /\ OthersUnchanged]_vars

\* a resize by the 's' handle moved by (10, 5) px, next to a second mask
\* with another id: the height has grown by 5 %, x and width are the
\* snapshot's
C30_Witness ==
    /\ interactionState = "RESIZING"
    /\ activeHandle = <<"s">>
    /\ startPos = Some(<<0, 0>>) /\ currentPos = Some(<<10, 5>>)
    /\ Len(masks) = 2
    /\ masks[1].id # masks[2].id
    /\ IsSome(initialMaskState) /\ IsSome(GestureMask)
    /\ Val(GestureMask).height = Val(initialMaskState).height + 500
    /\ Val(GestureMask).width = Val(initialMaskState).width
    /\ Val(GestureMask).x = Val(initialMaskState).x

(***************************************************************************)
(* The reconciliation of snapshots: passes of the backfill effect over     *)
(* several masks.                                                          *)
(***************************************************************************)
\* C31: after a backfill pass that captures a snapshot for two or more
\* visible masks, every one of those masks has a snapshot in the store.
C31_PassKeepsEveryCapture ==
    [][\A fails \in SUBSET (1..MaxMasks) :
         (/\ DistinctIds
          /\ Cardinality(UpdatedBy(fails)) >= 2
          /\ snapshotBackfill(fails))
         => \A k \in UpdatedBy(fails) :
              \E i \in DOMAIN masks' :
                  /\ masks'[i].id = backfillVisibleMasks[k].id
                  /\ masks'[i].imageSnapshot # None]_vars

(***************************************************************************)
(* SpecReconcile: the backfill effect under fairness.  The session starts  *)
(* with page 1 rendered over a store of up to two masks without snapshot;  *)
(* the effect runs again after every commit that changed the store, and a  *)
(* render that was started settles.                                        *)
(***************************************************************************)
ReconcileFills == {"solid", "clone-top"}

\* the mask drawn at time t, of one of the fills, for a page or global
ReconcileMaskStates(t) ==
    { Mask(<<t>>, 0, 0, 500, 500, White, fill, None, page) :
        fill \in ReconcileFills, page \in {Some(0), Some(1), None} }

ReconcileStores ==
    {<< >>} \cup { <<a>> : a \in ReconcileMaskStates(0) }
            \cup { <<a, b>> : a \in ReconcileMaskStates(0), b \in ReconcileMaskStates(1) }

\* edits, page changes and renders
ReconcileEditNext ==
    \/ \E d \in {-1, 1} : onPageChange(d, {})
    \/ renderDone(1)
    \/ \E fill \in ReconcileFills : handleMaskChange("fillType", fill)
    \/ \E k \in 1..MaxMasks : onSelectMask(k)

ReconcilePassNext == \E fails \in SUBSET (1..MaxMasks) : snapshotBackfill(fails)

NextReconcile == ReconcileEditNext \/ ReconcilePassNext

SpecReconcile ==
    /\ InitExportWith(ReconcileStores)
    /\ [][NextReconcile]_vars
    /\ WF_vars(snapshotBackfill({}))
    /\ WF_vars(renderDone(1))

\* every clone mask shown on the current page has a snapshot
Reconciled ==
    \A i \in DOMAIN masks :
        (isVisible(masks[i]) /\ masks[i].fillType # "solid")
            => masks[i].imageSnapshot # None

\* C32: unless edits, page changes or renders go on for ever, from some
\* point on every clone mask visible on the current page has a snapshot and
\* the mask store is not written any more.
C32_ReconcileSettles ==
    \/ []<><<ReconcileEditNext>>_vars
    \/ (<>[]Reconciled /\ <>[][masks' = masks]_vars)

\* two clone masks shown on page 1, both filled after the render of page 1
C32_Witness ==
    /\ ~loading /\ currentPage = 1 /\ canvasPage = 1
    /\ Len(masks) = 2
    /\ \A i \in 1..2 :
         /\ isVisible(masks[i])
         /\ masks[i].fillType = "clone-top"
         /\ masks[i].imageSnapshot = Some(1)

(***************************************************************************)
(* captureMaskSnapshot: the origin of the strip read from the raster.      *)
(* Percentages are in 0.01 %, so (value / 100) * size is value * size in   *)
(* units of 1 / 10000 px; OnePx is one pixel in that unit.                 *)
(***************************************************************************)
OnePx == 10000

\* <<sx, sy>> of ctx.getImageData(sx, sy, tempW, tempH) for a clone mask on
\* a canvas of canvasW x canvasH px, in 1 / 10000 px
sampleOrigin(mask, canvasW, canvasH) ==
    LET x == mask.x * canvasW
        y == mask.y * canvasH
        w == mask.width * canvasW
        h == mask.height * canvasH
    IN  CASE mask.fillType = "clone-top" -> <<x, Max(0, y - OnePx)>>
          [] mask.fillType = "clone-bottom" -> <<x, Min((canvasH - 1) * OnePx, y + h)>>
          [] mask.fillType = "clone-left" -> <<Max(0, x - OnePx), y>>
          [] mask.fillType = "clone-right" -> <<Min((canvasW - 1) * OnePx, x + w), y>>

(***************************************************************************)
(* SpecSample: one clone mask of 5 % x 5 % at (5 %, 5 %) dragged by steps  *)
(* of 5 % in both directions, with the backfill capturing its snapshot.    *)
(***************************************************************************)
CloneFills == FillTypes \ {"solid"}

SampleStores ==
    { << Mask(<<0>>, 500, 500, 500, 500, White, fill, None, Some(0)) >> : fill \in CloneFills }

SamplePoints == { <<0, 0>>, <<10, 5>>, <<20, 10>> }

NextSample ==
    \/ handleMaskMouseDown(1, <<10, 5>>)
    \/ \E pos \in SamplePoints : handleGlobalMouseMove(pos)
    \/ \E pixel \in PixelColors : handleGlobalMouseUp(TRUE, pixel)
    \/ \E fails \in SUBSET {1} : snapshotBackfill(fails)

SpecSample == InitExportWith(SampleStores) /\ [][NextSample]_vars

\* C33: for every clone mask of the store that holds a captured snapshot and
\* every raster size, the origin of the strip read for it lies inside the
\* raster: 0 <= sampleX <= width - 1 and 0 <= sampleY <= height - 1.
C33_SampleInsideRaster ==
    \A i \in DOMAIN masks, raster \in RasterSizes :
        (masks[i].fillType # "solid" /\ masks[i].imageSnapshot # None)
        => LET origin == sampleOrigin(masks[i], raster[1], raster[2])
           IN  /\ 0 <= origin[1] /\ origin[1] <= (raster[1] - 1) * OnePx
               /\ 0 <= origin[2] /\ origin[2] <= (raster[2] - 1) * OnePx

(***************************************************************************)
(* getDominantColor: the conversion of the sampled pixel to a hex string.  *)
(***************************************************************************)
\* Number.prototype.toString(16)
RECURSIVE toString16(_)
toString16(n) ==
    IF n < 16 THEN <<LowerHex[n + 1]>>
    ELSE Append(toString16(n \div 16), LowerHex[(n % 16) + 1])

\* String.prototype.toUpperCase on hex digits
toUpperCase(s) ==
    [i \in DOMAIN s |->
        IF \E d \in 1..16 : LowerHex[d] = s[i]
        THEN UpperHex[CHOOSE d \in 1..16 : LowerHex[d] = s[i]]
        ELSE s[i]]

\* rgbToHex without the conversion to upper case
rgbToHexLower(r, g, b) ==
    <<"#">> \o Tail(toString16(16777216 + r * 65536 + g * 256 + b))

\* "#" + ((1 << 24) + (r << 16) + (g << 8) + b).toString(16).slice(1).toUpperCase()
rgbToHex(r, g, b) ==
    <<"#">> \o toUpperCase(Tail(toString16(16777216 + r * 65536 + g * 256 + b)))

(***************************************************************************)
(* SpecSampler: draws whose colour is sampled from pixels of several       *)
(* values, with the canvas readable or not.                                *)
(***************************************************************************)
\* components of a pixel of the Uint8ClampedArray
ByteSamples == {0, 9, 171, 255}

SamplerSessionNext ==
    \/ handleFileSelected
    \/ fileLoaded(1)
    \/ renderDone(1)
    \/ handleDeleteMask

SamplerGestureNext ==
    \/ handleContainerMouseDown(<<0, 0>>)
    \/ \E pos \in DrawPoints : handleGlobalMouseMove(pos)
    \/ \E readable \in BOOLEAN, r, g, b \in ByteSamples :
          handleGlobalMouseUp(readable, rgbToHex(r, g, b))

NextSampler == SamplerSessionNext \/ SamplerGestureNext

SpecSampler == InitDrawn /\ [][NextSampler]_vars

\* '#' followed by six digits 0-9 or A-F
IsUpperHexColor(hex) ==
    /\ Len(hex) = 7
    /\ hex[1] = "#"
    /\ \A i \in 2..7 : \E d \in 1..16 : UpperHex[d] = hex[i]

\* C34: a pointer-up that ends a drawing of more than 5 x 5 px adds the
\* mask whatever the sampling does; its colour is '#' followed by six
\* upper-case hex digits, and it is '#FFFFFF' when the canvas, its context
\* or the pixel read is unavailable.
C34_DrawnColorIsHex ==
    [][\A readable \in BOOLEAN, r, g, b \in ByteSamples :
         (/\ interactionState = "DRAWING"
          /\ IsSome(startPos) /\ IsSome(currentPos)
          /\ Abs(Val(currentPos)[1] - Val(startPos)[1]) > 5
          /\ Abs(Val(currentPos)[2] - Val(startPos)[2]) > 5
          /\ handleGlobalMouseUp(readable, rgbToHex(r, g, b)))
         => /\ Len(masks') = Len(masks) + 1
            /\ IsUpperHexColor(masks'[Len(masks')].color)
            /\ ~readable => masks'[Len(masks')].color = White]_vars

\* a mask drawn over a pixel of (171, 9, 255)
C34_Witness ==
    /\ Len(masks) = 1
    /\ masks[1].color = <<"#", "A", "B", "0", "9", "F", "F">>
    /\ masks[1].fillType = "solid"
    /\ interactionState = "IDLE"

(***************************************************************************)
(* Invariants of the mask store.                                           *)
(***************************************************************************)
\* C35: in every reachable state the masks of the store have pairwise
\* distinct ids, also when two draws or two detections read the same value
\* of the clock.
C35_IdsUnique == DistinctIds

\* C36: in every reachable state every solid mask of the store has no
\* snapshot, and a change of the fill style to solid leaves the edited mask
\* solid and without snapshot.
C36_SolidHasNoSnapshot ==
    /\ [](\A i \in DOMAIN masks :
            masks[i].fillType = "solid" => masks[i].imageSnapshot = None)
    /\ [][handleMaskChange("fillType", "solid")
            => /\ EditedAfter.fillType = "solid"
               /\ EditedAfter.imageSnapshot = None]_vars

\* a solid mask made global, shown on page 2 after the render of page 2
\* and the backfill that follows it
C36_Witness ==
    /\ CanvasPresent /\ ~loading /\ ~effectsPending
    /\ currentPage = 2 /\ canvasPage = 2
    /\ Len(masks) = 1
    /\ masks[1].pageIndex = None
    /\ masks[1].fillType = "solid"
    /\ masks[1].imageSnapshot = None

\* C37: in every reachable state the selected id is null or the id of a
\* mask of the store; a pointer-up that adds a drawn mask selects it, the
\* deletion of the selected mask, a file load and a reset clear the
\* selection.
C37_SelectionInStore ==
    /\ [](selectedMaskId = None
          \/ \E i \in DOMAIN masks : masks[i].id = Val(selectedMaskId))
    /\ [][/\ (\E pixel \in PixelColors : handleGlobalMouseUp(TRUE, pixel))
               /\ Len(masks') = Len(masks) + 1
             => selectedMaskId' = Some(masks'[Len(masks')].id)
          /\ (handleDeleteMask \/ handleReset \/ \E n \in 1..MaxPages : fileLoaded(n))
             => selectedMaskId' = None]_vars

\* two masks drawn at different times, the one drawn last selected, and a
\* new drawing not started
C37_Witness ==
    /\ appState = "READY" /\ interactionState = "IDLE"
    /\ Len(masks) = 2
    /\ masks[1].id = <<0>> /\ masks[2].id = <<1>>
    /\ selectedMaskId = Some(<<1>>)

(***************************************************************************)
(* Sessions and the requests in flight across them.                        *)
(***************************************************************************)
\* C38: while no document is loaded (after a reset, before the next load)
\* the mask store is empty and the margins are zero: an answer of a
\* detection started in the session before changes neither.
C38_LateDetectionIgnored ==
    ~fileData => (masks = << >> /\ margins = ZeroMargins)

(***************************************************************************)
(* SpecFlag: auto-detection requests in both modes whose pipeline answers, *)
(* rejects or stays silent, with page turns, resets and new documents in   *)
(* between.  The 90 s timer of a request is a setTimeout: it fires unless  *)
(* the pipeline settled the race before, hence the weak fairness on        *)
(* detectTimeout.                                                          *)
(***************************************************************************)
FlagSessionNext ==
    \/ handleFileSelected
    \/ fileLoaded(2)
    \/ renderDone(1)
    \/ \E d \in {-1, 1} : onPageChange(d, {})
    \/ handleReset
    \/ \E m \in {"CROP", "MASK"} : onModeChange(m)

FlagPipelineNext ==
    \/ handleAutoDetect
    \/ \E k \in 1..MaxDetections : detectFailed(k)
    \/ \E k \in 1..MaxDetections : detectMarginsDone(k, CropMargins(5, 0, 0, 0))
    \/ \E k \in 1..MaxDetections, raw \in DetectorAnswers : detectMasksDone(k, raw)

FlagTimerNext == \E k \in 1..MaxDetections : detectTimeout(k)

NextFlag == FlagSessionNext \/ FlagPipelineNext \/ FlagTimerNext

SpecFlag == InitDrawn /\ [][NextFlag]_vars /\ WF_vars(FlagTimerNext)

\* a request whose race has not settled yet
RaceOpen == \E k \in DOMAIN detections : ~detections[k].settled

\* C39: after every auto-detect request isAutoDetecting eventually returns
\* to false, whether the pipeline answers, rejects or never responds (the
\* timeout), and it is true from the request until the race of that
\* request settles: handleAutoDetect sets it, and it is true exactly while
\* a race is open.
C39_FlagReturns ==
    /\ isAutoDetecting ~> ~isAutoDetecting
    /\ [](isAutoDetecting <=> RaceOpen)
    /\ [][handleAutoDetect => isAutoDetecting']_vars

\* the timer of a request has fired with the pipeline still silent, after
\* a reset: the flag is back to false
C39_Witness ==
    /\ ~isAutoDetecting
    /\ ~fileData
    /\ \E k \in DOMAIN detections : detections[k].settled

(***************************************************************************)
(* SpecAbandon: exports of the loaded three-page document during which the *)
(* user presses 'Upload New File' and loads a document again.  The reset   *)
(* button is rendered whenever a file is set and is not disabled while     *)
(* the export runs.                                                        *)
(***************************************************************************)
AbandonSessionNext ==
    \/ handleReset
    \/ handleFileSelected
    \/ fileLoaded(ExportPages)
    \/ renderDone(1)

AbandonExportNext ==
    \/ handleProcess
    \/ \E throws \in BOOLEAN : processDone(throws, {})

NextAbandon == AbandonSessionNext \/ AbandonExportNext

SpecAbandon == InitExportWith(ReconcileStores) /\ [][NextAbandon]_vars

\* C40: in every reachable state in which the application state is READY
\* or PROCESSING a document is loaded, including when the user resets the
\* session while an export is being processed.
C40_ReadyHasDocument == appState \in {"READY", "PROCESSING"} => fileData

====
